---- MODULE Spec2Model ----
(***************************************************************************)
(* Ingestion pipeline of the agrolt dashboard backend: the MQTT service    *)
(* (src/src/service/mqtt.service.ts), the Topic table it writes            *)
(* (src/unnamed/part_002), the payload normalizer                          *)
(* (src/src/utils/data-convert.util.ts) and the broadcast entry point of   *)
(* the WebSocket service (src/unnamed/part_001).                           *)
(*                                                                         *)
(* Strings that the code inspects character by character (device numbers,  *)
(* zone names, topic names, field names, room names) are sequences of      *)
(* one-character strings.  Opaque strings (identifiers, message bytes) are *)
(* TLA+ strings.                                                           *)
(***************************************************************************)
EXTENDS Integers, Sequences, FiniteSets, TLC

\* ------------------------------------------------------------------ bounds
\* total number of bus messages delivered to the 'message' handler
MaxMessages == 2
\* total number of bus 'connect' events (first connect and reconnects)
MaxConnects == 2
\* total number of events received from viewers
MaxViewerEvents == 3
\* total number of broadcastToZoneRoom calls
MaxPushes == 2
\* longest device number and zone name handed to buildTopic
MaxNameLen == 2
\* most fields of the nested d object of a payload handed to the normalizer
MaxFields == 2
\* longest field name tried against the three pattern classes
MaxFieldNameLen == 4
\* the numbers handed to the converters are -MaxValue..MaxValue
MaxValue == 400

\* ------------------------------------------------------------- small helpers
None == "none"

\* ------------------------------------------------------- the relational store
\* Device rows (id, deviceNumber) and Zone rows (id, name, deviceId) that the
\* CRUD layer may hold; the pipeline only reads them.
DeviceUniverse ==
  { [id |-> "dev1", deviceNumber |-> <<"0", "9">>],
    [id |-> "dev2", deviceNumber |-> <<"#", "7">>] }

ZoneUniverse ==
  { [id |-> "zA", name |-> <<"z", "o", "n", "e", "1">>, deviceId |-> "dev1"],
    [id |-> "zB", name |-> <<"a", "+">>,               deviceId |-> "dev2"] }

\* ------------------------------------------------------------- Topic Namer
\* faulty variant of sanitize: replace without the g flag, first match only
sanitizeFirst(s) ==
  IF \A i \in DOMAIN s : s[i] \notin {"#", "+"} THEN s
  ELSE LET first == CHOOSE i \in DOMAIN s :
                      /\ s[i] \in {"#", "+"}
                      /\ \A j \in 1..(i - 1) : s[j] \notin {"#", "+"}
       IN [s EXCEPT ![first] = "_"]

\* String.prototype.replace(/[#+]/g, '_')
RECURSIVE sanitize(_)
sanitize(s) ==
  IF s = <<>> THEN <<>>
  ELSE <<IF Head(s) \in {"#", "+"} THEN "_" ELSE Head(s)>> \o sanitize(Tail(s))

buildTopic(deviceNumber, zoneName) == sanitize(deviceNumber) \o sanitize(zoneName)

\* a topic no device x zone pair of the universe derives (stray bus traffic)
StrayTopic == <<"x", "9">>

\* ----------------------------------------------------------- JSON values
\* A JSON value is a one-field record naming its type: a number, a string (str:
\* a character sequence, txt: an opaque text), an array of values or an object
\* (a function from field names to values).  A
\* top-level payload object is a TLA+ record (its keys are TLA+ strings); the
\* field names of the nested "d" object are character sequences, because the
\* normalizer matches them against patterns.
Num(n) == [num |-> n]
Str(s) == [str |-> s]
Txt(s) == [txt |-> s]
Arr(a) == [arr |-> a]
Obj(f) == [obj |-> f]

IsNum(v) == DOMAIN v = {"num"}
IsStr(v) == DOMAIN v = {"str"} \/ DOMAIN v = {"txt"}
IsArr(v) == DOMAIN v = {"arr"}
IsObj(v) == DOMAIN v = {"obj"}

\* JavaScript truthiness of a JSON value (!v is its negation)
Truthy(v) == IF IsNum(v) THEN v.num # 0
             ELSE IF DOMAIN v = {"str"} THEN v.str # <<>>
             ELSE IF DOMAIN v = {"txt"} THEN v.txt # ""
             ELSE TRUE

\* the message bytes the bus may deliver, as text
ZoneText  == "{\"d\":{\"d200\":[345,0],\"x0\":[-1],\"m550\":[7],\"n\":5},\"ts\":\"t1\"}"
PlainText == "{\"a\":1}"
BadText   == "not json"

RawMessages == {ZoneText, PlainText, BadText}

d200 == <<"d", "2", "0", "0">>
x0   == <<"x", "0">>
m550 == <<"m", "5", "5", "0">>
nFld == <<"n">>

ZoneFields ==
  [f \in {d200, x0, m550, nFld} |->
     IF f = d200 THEN Arr(<<Num(345), Num(0)>>)
     ELSE IF f = x0 THEN Arr(<<Num(-1)>>)
     ELSE IF f = m550 THEN Arr(<<Num(7)>>)
     ELSE Num(5)]

\* JSON.parse on the texts above: ok = FALSE stands for the SyntaxError it throws
JSONparse(text) ==
  IF text = ZoneText THEN [ok |-> TRUE, value |-> [d |-> Obj(ZoneFields), ts |-> Txt("t1")]]
  ELSE IF text = PlainText THEN [ok |-> TRUE, value |-> [a |-> Num(1)]]
  ELSE [ok |-> FALSE, value |-> [a |-> Num(0)]]

\* faulty variant of parseMessage: the catch branch loses the raw text
parseMessageLosesRaw(message) ==
  IF JSONparse(message).ok THEN JSONparse(message).value
  ELSE [rawData |-> Txt("")]

\* MqttService.parseMessage
parseMessage(message) ==
  IF JSONparse(message).ok THEN JSONparse(message).value
  ELSE [rawData |-> Txt(message)]

\* ------------------------------------------------------- Payload Normalizer
Digit == {"0", "1", "2", "3", "4", "5", "6", "7", "8", "9"}

DigitChar(k) == <<"0", "1", "2", "3", "4", "5", "6", "7", "8", "9">>[k + 1]

\* decimal rendering of a natural number
RECURSIVE NatToString(_)
NatToString(n) ==
  IF n < 10 THEN <<DigitChar(n)>>
  ELSE NatToString(n \div 10) \o <<DigitChar(n % 10)>>

Abs(v) == IF v < 0 THEN -v ELSE v

\* (value / 10).toFixed(1) for an integer value: the quotient, a point, one digit
toFixed1OfTenth(value) ==
  (IF value < 0 THEN <<"-">> ELSE <<>>)
    \o NatToString(Abs(value) \div 10) \o <<".">> \o <<DigitChar(Abs(value) % 10)>>

\* faulty variant of convertDecimalPlace: no special case for 0
convertDecimalPlaceNoZeroCase(value) == toFixed1OfTenth(value)

convertDecimalPlace(value) ==
  IF value = 0 THEN <<"0">> ELSE toFixed1OfTenth(value)

Max(a, b) == IF a > b THEN a ELSE b
Min(a, b) == IF a < b THEN a ELSE b

\* Number.prototype.toString(2) of a natural number
RECURSIVE toBinaryString(_)
toBinaryString(n) ==
  IF n < 2 THEN <<DigitChar(n)>>
  ELSE toBinaryString(n \div 2) \o <<DigitChar(n % 2)>>

\* String.prototype.padStart(len, '0')
RECURSIVE padStart0(_, _)
padStart0(s, len) == IF Len(s) >= len THEN s ELSE padStart0(<<"0">> \o s, len)

\* faulty variant of convertTo8BitSignedBinary: the value is masked unclamped
convertTo8BitSignedBinaryUnclamped(value) ==
  padStart0(toBinaryString(value % 256), 8)

convertTo8BitSignedBinary(value) ==
  LET clampedValue == Max(-128, Min(127, value))
      \* clampedValue & 0xFF on a 32-bit two's-complement integer
      masked == clampedValue % 256
  IN padStart0(toBinaryString(masked), 8)

\* String.prototype.includes
includes(s, sub) ==
  \E i \in 0..(Len(s) - Len(sub)) : SubSeq(s, i + 1, i + Len(sub)) = sub

\* ZONE_CONFIG.decimalFields: /^d2\d\d$/, /^d4\d\d$/, /^d5\d\d$/
decimalFields(f) ==
  /\ Len(f) = 4
  /\ f[1] = "d"
  /\ f[2] \in {"2", "4", "5"}
  /\ f[3] \in Digit
  /\ f[4] \in Digit

\* ZONE_CONFIG.binaryFields: /^x\d+$/, /^y\d+$/
binaryFields(f) ==
  /\ Len(f) >= 2
  /\ f[1] \in {"x", "y"}
  /\ \A i \in 2..Len(f) : f[i] \in Digit

\* ZONE_CONFIG.asIsFields: /^m55\d$/ (declared, read by no code)
asIsFields(f) ==
  /\ Len(f) = 4
  /\ SubSeq(f, 1, 3) = <<"m", "5", "5">>
  /\ f[4] \in Digit

\* !data || !data.d   (data is a payload object, so !data is false)
lacksD(data) == ~("d" \in DOMAIN data) \/ ~Truthy(data.d)

Zone1Names == { <<"d","2","0","0">>, <<"d","2","3","0">>, <<"d","4","1","0">>, <<"d","4","7","0">> }
Zone2Names == { <<"d","2","1","0">>, <<"d","2","4","0">>, <<"d","4","3","0">>, <<"d","5","0","0">> }
Zone3Names == { <<"d","2","2","0">>, <<"d","2","5","0">>, <<"d","4","5","0">>, <<"d","5","3","0">> }

\* Object.keys(data.d): the field names of an object, none for a scalar
ObjectKeys(v) == IF IsObj(v) THEN DOMAIN v.obj ELSE {}

\* faulty variant of detectZoneType: the field names are looked at before the topic
detectZoneTypeFieldsFirst(topic, data) ==
  IF lacksD(data) THEN 0
  ELSE IF ObjectKeys(data.d) \cap Zone1Names # {} THEN 1
  ELSE IF ObjectKeys(data.d) \cap Zone2Names # {} THEN 2
  ELSE IF ObjectKeys(data.d) \cap Zone3Names # {} THEN 3
  ELSE IF includes(topic, <<"z","o","n","e","1">>) THEN 1
  ELSE IF includes(topic, <<"z","o","n","e","2">>) THEN 2
  ELSE IF includes(topic, <<"z","o","n","e","3">>) THEN 3
  ELSE 0

detectZoneType(topic, data) ==
  IF lacksD(data) THEN 0
  ELSE IF includes(topic, <<"z","o","n","e","1">>) THEN 1
  ELSE IF includes(topic, <<"z","o","n","e","2">>) THEN 2
  ELSE IF includes(topic, <<"z","o","n","e","3">>) THEN 3
  ELSE IF ObjectKeys(data.d) \cap Zone1Names # {} THEN 1
  ELSE IF ObjectKeys(data.d) \cap Zone2Names # {} THEN 2
  ELSE IF ObjectKeys(data.d) \cap Zone3Names # {} THEN 3
  ELSE 0

\* (result.d[fieldName] as number[]).map(convertDecimalPlace)
mapDecimal(a) == [i \in 1..Len(a) |-> Str(convertDecimalPlace(a[i].num))]

\* (result.d[fieldName] as number[]).map(convertTo8BitSignedBinary)
mapBinary(a) == [i \in 1..Len(a) |-> Str(convertTo8BitSignedBinary(a[i].num))]

\* faulty variant of convertField: binary-class fields are left as they are
convertFieldDecimalOnly(fieldName, v) ==
  IF ~IsArr(v) THEN v
  ELSE IF decimalFields(fieldName) THEN Arr(mapDecimal(v.arr))
  ELSE v

\* one field of result.d after the loop body of convertZoneData
convertField(fieldName, v) ==
  IF ~IsArr(v) THEN v
  ELSE IF decimalFields(fieldName) THEN Arr(mapDecimal(v.arr))
  ELSE IF binaryFields(fieldName) THEN Arr(mapBinary(v.arr))
  ELSE v

\* faulty variant of JSONclone: a shallow copy ({...data}), whose d is the
\* argument's d object
JSONcloneShallow(data) == [value |-> data, sharesD |-> TRUE]

\* JSON.parse(JSON.stringify(data)): for a JSON value, a new value equal to
\* data that shares no object with it
JSONclone(data) == [value |-> data, sharesD |-> FALSE]

\* convertZoneData: without a truthy d a minimal structure, otherwise the
\* copy of data with the fields of its d converted
convertZoneData(data) ==
  IF lacksD(data) THEN [d |-> Obj(<<>>), ts |-> IF "ts" \in DOMAIN data THEN data.ts ELSE Txt("now")]
  ELSE LET result == JSONclone(data).value
       IN IF ~IsObj(result.d) THEN result
          ELSE [result EXCEPT !.d =
                  Obj([f \in DOMAIN result.d.obj |-> convertField(f, result.d.obj[f])])]

\* the object passed to convertZoneData, after the call: the assignments to
\* result.d[fieldName] reach it only if result.d is the argument's d object
convertZoneDataArgument(data) ==
  IF lacksD(data) THEN data
  ELSE IF JSONclone(data).sharesD /\ IsObj(data.d)
       THEN [data EXCEPT !.d = convertZoneData(data).d]
       ELSE data

processDataForWebsocket(topic, data) ==
  IF detectZoneType(topic, data) > 0 /\ "d" \in DOMAIN data /\ "ts" \in DOMAIN data
  THEN convertZoneData(data)
  ELSE data

\* the object passed to processDataForWebsocket, after the call
processDataForWebsocketArgument(topic, data) ==
  IF detectZoneType(topic, data) > 0 /\ "d" \in DOMAIN data /\ "ts" \in DOMAIN data
  THEN convertZoneDataArgument(data)
  ELSE data

\* ------------------------------------------------------------------- state
VARIABLES
  dbInitialized,       \* AppDataSource.isInitialized
  zones,               \* Zone rows of the relational store (each names its device)
  client,              \* MqttService.client is set (TRUE) or null (FALSE)
  busUp,               \* the bus connection is established (between 'connect' and 'close')
  isConnected,         \* MqttService.isConnected
  topicSubscriptions,  \* MqttService.topicSubscriptions: topic -> {deviceId, zoneId}
  batches,             \* the calls of subscribeToAllDeviceZonePairs, one per 'connect'
  store,               \* the topics table, in insertion (createdAt) order
  handlers,            \* the storeTopicData calls in flight
  received,            \* every message delivered to the 'message' handler, with its outcome
  io,                  \* WebSocketService.io is set (TRUE) or null (FALSE)
  emitted,             \* every emit of broadcastTopicUpdate and broadcastToZoneRoom, in order
  initializeReturnedEarly, \* history: an initialize() call returned at its database check
  lastBusEvent,        \* history: the most recent of the bus events connect, error, close
  sockets,             \* the viewers whose 'connection' handler has run
  rooms,               \* io.sockets.adapter.rooms, as <<room, socket id>> pairs
  inbound,             \* every event received from a viewer, in order
  relayed,             \* every io.to(roomName).emit of the onAny handler, in order
  delivered,           \* every event a viewer was sent, in order
  zonePushes,          \* every call of broadcastToZoneRoom, in order
  utilCall,            \* the exported function or controller method called, with its arguments
  utilReturn           \* what that call returned (and its argument object afterwards)

\* the state of the viewer side of the Broadcast Router
viewerVars == <<sockets, rooms, inbound, relayed, delivered, zonePushes>>

\* the call of a pure exported function or of a controller method
utilVars == <<utilCall, utilReturn>>

\* the state of the Ingestion Pipeline and of the router's server side
serverVars == <<dbInitialized, zones, client, busUp, isConnected,
                topicSubscriptions, batches, store, handlers, received, io,
                emitted, initializeReturnedEarly, lastBusEvent>>

vars == <<dbInitialized, zones, client, busUp, isConnected, topicSubscriptions,
          batches, store, handlers, received, io, emitted,
          initializeReturnedEarly, lastBusEvent, viewerVars, utilVars>>

\* the topics messages arrive on: the derived ones and a stray one
MessageTopics ==
  UNION { { buildTopic(d.deviceNumber, z.name) :
              z \in {y \in ZoneUniverse : y.deviceId = d.id} } : d \in DeviceUniverse }
  \cup {StrayTopic}

Init ==
  /\ dbInitialized = FALSE
  /\ zones = {}
  /\ client = FALSE
  /\ busUp = FALSE
  /\ isConnected = FALSE
  /\ topicSubscriptions = <<>>
  /\ batches = <<>>
  /\ store = <<>>
  /\ handlers = {}
  /\ received = <<>>
  /\ io = FALSE
  /\ emitted = <<>>
  /\ initializeReturnedEarly = FALSE
  /\ lastBusEvent = None
  /\ sockets = {}
  /\ rooms = {}
  /\ inbound = <<>>
  /\ relayed = <<>>
  /\ delivered = <<>>
  /\ zonePushes = <<>>
  /\ utilCall = [fn |-> None]
  /\ utilReturn = None

\* ------------------------------------------------ the store's external writers
\* initializeDatabase() of index.ts
InitializeDatabase ==
  /\ ~dbInitialized
  /\ dbInitialized' = TRUE
  /\ UNCHANGED <<utilVars, viewerVars, initializeReturnedEarly, lastBusEvent, zones,
                 client, busUp, isConnected, topicSubscriptions, batches, store,
                 handlers, received, io, emitted>>

\* ZoneService.createZone: a zone row for an existing device
createZone(z) ==
  /\ dbInitialized
  /\ z \notin zones
  /\ zones' = zones \cup {z}
  /\ UNCHANGED <<utilVars, viewerVars, initializeReturnedEarly, lastBusEvent,
                 dbInitialized, client, busUp, isConnected, topicSubscriptions,
                 batches, store, handlers, received, io, emitted>>

\* the zone row is deleted (Zone.deletedAt: rows hidden from find once soft-deleted)
removeZone(z) ==
  /\ dbInitialized
  /\ z \in zones
  /\ zones' = zones \ {z}
  /\ UNCHANGED <<utilVars, viewerVars, initializeReturnedEarly, lastBusEvent,
                 dbInitialized, client, busUp, isConnected, topicSubscriptions,
                 batches, store, handlers, received, io, emitted>>

\* WebSocketService.initialize
wsInitialize ==
  /\ ~io
  /\ io' = TRUE
  /\ UNCHANGED <<utilVars, viewerVars, initializeReturnedEarly, lastBusEvent,
                 dbInitialized, zones, client, busUp, isConnected,
                 topicSubscriptions, batches, store, handlers, received, emitted>>

\* ------------------------------------------------------- Ingestion Pipeline
\* faulty variant of initialize: the client is created whatever the database state
initializeUnchecked ==
  /\ ~client
  /\ client' = TRUE
  /\ initializeReturnedEarly' = (initializeReturnedEarly \/ ~dbInitialized)
  /\ UNCHANGED <<utilVars, viewerVars, lastBusEvent, dbInitialized, zones, busUp,
                 isConnected, topicSubscriptions, batches, store, handlers,
                 received, io, emitted>>

\* MqttService.initialize: returns early when the database is not initialized,
\* else creates the client and registers the event handlers
initialize ==
  /\ ~client
  /\ client' = dbInitialized
  /\ initializeReturnedEarly' = (initializeReturnedEarly \/ ~dbInitialized)
  /\ UNCHANGED <<utilVars, viewerVars, lastBusEvent, dbInitialized, zones, busUp,
                 isConnected, topicSubscriptions, batches, store, handlers,
                 received, io, emitted>>

\* faulty variant of derivePairs: only the pairs whose topic is already registered
derivePairsKnownOnly(zs) ==
  UNION { { [topic |-> buildTopic(d.deviceNumber, z.name),
             deviceId |-> d.id, zoneId |-> z.id] :
              z \in {y \in zs : y.deviceId = d.id
                                /\ buildTopic(d.deviceNumber, y.name)
                                      \in DOMAIN topicSubscriptions} } :
          d \in DeviceUniverse }

\* Device rows joined with their zones, as find({relations: ['zones']}) returns
\* them; the loops of subscribeToAllDeviceZonePairs skip a device with no zone
\* and yield one subscription per device x zone pair
derivePairs(zs) ==
  UNION { { [topic |-> buildTopic(d.deviceNumber, z.name),
             deviceId |-> d.id, zoneId |-> z.id] :
              z \in {y \in zs : y.deviceId = d.id} } : d \in DeviceUniverse }

\* client.on('connect'): isConnected = true, then initializeSubscriptions(), whose
\* guards (isConnected, client, AppDataSource.isInitialized) decide whether the
\* device query of subscribeToAllDeviceZonePairs is issued
onConnect ==
  /\ client
  /\ ~busUp
  /\ Len(batches) < MaxConnects
  /\ busUp' = TRUE
  /\ isConnected' = TRUE
  /\ lastBusEvent' = "connect"
  /\ batches' = Append(batches,
        [phase |-> IF dbInitialized /\ client THEN "finding" ELSE "skipped",
         derived |-> {}, pending |-> {}, failed |-> {},
         \* history: no earlier batch was still running at this connect
         sequential |-> \A b \in DOMAIN batches :
                          batches[b].phase \in {"done", "failed", "skipped"}])
  /\ UNCHANGED <<utilVars, viewerVars, initializeReturnedEarly, dbInitialized, zones,
                 client, topicSubscriptions, store, handlers, received, io,
                 emitted>>

\* client.on('close')
onClose ==
  /\ client
  /\ busUp
  /\ busUp' = FALSE
  /\ isConnected' = FALSE
  /\ lastBusEvent' = "close"
  /\ UNCHANGED <<utilVars, viewerVars, initializeReturnedEarly, dbInitialized, zones,
                 client, topicSubscriptions, batches, store, handlers, received,
                 io, emitted>>

\* faulty variant of onError: the error is logged and the flag kept
onErrorKeepsFlag ==
  /\ client
  /\ isConnected' = isConnected
  /\ lastBusEvent' = "error"
  /\ UNCHANGED <<utilVars, viewerVars, initializeReturnedEarly, dbInitialized, zones,
                 client, busUp, topicSubscriptions, batches, store, handlers,
                 received, io, emitted>>

\* client.on('error'): the bus client reports an error at any time of its life,
\* connected or not
onError ==
  /\ client
  /\ isConnected' = FALSE
  /\ lastBusEvent' = "error"
  /\ UNCHANGED <<utilVars, viewerVars, initializeReturnedEarly, dbInitialized, zones,
                 client, busUp, topicSubscriptions, batches, store, handlers,
                 received, io, emitted>>

\* the device query of batch b resolves: every derived topic is subscribed
findResolves(b) ==
  /\ batches[b].phase = "finding"
  /\ batches' = [batches EXCEPT ![b] =
        [phase |-> "subscribing", derived |-> derivePairs(zones),
         pending |-> derivePairs(zones), failed |-> {},
         sequential |-> batches[b].sequential]]
  /\ UNCHANGED <<utilVars, viewerVars, initializeReturnedEarly, lastBusEvent,
                 dbInitialized, zones, client, busUp, isConnected,
                 topicSubscriptions, store, handlers, received, io, emitted>>

\* the device query of batch b rejects: caught and logged, nothing subscribed
findRejects(b) ==
  /\ batches[b].phase = "finding"
  /\ batches' = [batches EXCEPT ![b].phase = "failed"]
  /\ UNCHANGED <<utilVars, viewerVars, initializeReturnedEarly, lastBusEvent,
                 dbInitialized, zones, client, busUp, isConnected,
                 topicSubscriptions, store, handlers, received, io, emitted>>

Settled(b) == batches[b].phase \in {"done", "failed", "skipped"}

\* Map.prototype.set
mapSet(m, k, v) == [x \in DOMAIN m \cup {k} |-> IF x = k THEN v ELSE m[x]]

\* faulty variant of subscribeCallback: a failed subscribe aborts the batch
subscribeCallbackAborts(b, sub, err) ==
  /\ batches[b].phase = "subscribing"
  /\ sub \in batches[b].pending
  /\ batches' = [batches EXCEPT ![b].pending = @ \ {sub},
                                ![b].failed = IF err THEN @ \cup {sub} ELSE @,
                                ![b].phase = IF err THEN "failed" ELSE @]
  /\ topicSubscriptions' =
        IF err THEN topicSubscriptions
        ELSE mapSet(topicSubscriptions, sub.topic,
                    [deviceId |-> sub.deviceId, zoneId |-> sub.zoneId])
  /\ UNCHANGED <<utilVars, viewerVars, initializeReturnedEarly, lastBusEvent,
                 dbInitialized, zones, client, busUp, isConnected, store,
                 handlers, received, io, emitted>>

\* the subscribe callback of one topic of batch b fires, with or without an error
subscribeCallback(b, sub, err) ==
  /\ batches[b].phase = "subscribing"
  /\ sub \in batches[b].pending
  /\ batches' = [batches EXCEPT ![b].pending = @ \ {sub},
                                ![b].failed = IF err THEN @ \cup {sub} ELSE @]
  /\ topicSubscriptions' =
        IF err THEN topicSubscriptions
        ELSE mapSet(topicSubscriptions, sub.topic,
                    [deviceId |-> sub.deviceId, zoneId |-> sub.zoneId])
  /\ UNCHANGED <<utilVars, viewerVars, initializeReturnedEarly, lastBusEvent,
                 dbInitialized, zones, client, busUp, isConnected, store,
                 handlers, received, io, emitted>>

\* Promise.all(subscriptionPromises) resolves
batchCompletes(b) ==
  /\ batches[b].phase = "subscribing"
  /\ batches[b].pending = {}
  /\ batches' = [batches EXCEPT ![b].phase = "done"]
  /\ UNCHANGED <<utilVars, viewerVars, initializeReturnedEarly, lastBusEvent,
                 dbInitialized, zones, client, busUp, isConnected,
                 topicSubscriptions, store, handlers, received, io, emitted>>

\* faulty variant of topicSubscriptionsGet: an unknown topic is given empty attribution
\* instead of undefined, so handleMessage does not return early
topicSubscriptionsGetBlind(topic) ==
  IF topic \in DOMAIN topicSubscriptions
  THEN [found |-> TRUE, deviceId |-> topicSubscriptions[topic].deviceId,
        zoneId |-> topicSubscriptions[topic].zoneId]
  ELSE [found |-> TRUE, deviceId |-> None, zoneId |-> None]

\* Map.prototype.get: found = FALSE stands for the undefined it returns
topicSubscriptionsGet(topic) ==
  IF topic \in DOMAIN topicSubscriptions
  THEN [found |-> TRUE, deviceId |-> topicSubscriptions[topic].deviceId,
        zoneId |-> topicSubscriptions[topic].zoneId]
  ELSE [found |-> FALSE, deviceId |-> None, zoneId |-> None]

\* ---------------------------------------------------------- Versioned Store
\* the rows of the topics table with a given name
RowsOf(name) == {store[i] : i \in {j \in DOMAIN store : store[j].name = name}}

LatestOf(name) == {r \in RowsOf(name) : r.isLatest}

\* faulty variant of demoteLatest: the WHERE clause does not name the topic
demoteLatestAnyName(rows, name) ==
  [i \in DOMAIN rows |->
     IF rows[i].isLatest THEN [rows[i] EXCEPT !.isLatest = FALSE] ELSE rows[i]]

\* faulty variant of demoteLatest: the latest row of the name is deleted
demoteLatestDeletes(rows, name) ==
  SelectSeq(rows, LAMBDA r : ~(r.name = name /\ r.isLatest))

\* UPDATE topics SET isLatest = false WHERE name = :name AND isLatest = true
demoteLatest(rows, name) ==
  [i \in DOMAIN rows |->
     IF rows[i].name = name /\ rows[i].isLatest
     THEN [rows[i] EXCEPT !.isLatest = FALSE]
     ELSE rows[i]]

\* faulty variant of newTopic: the identifiers are read from the registry
\* when the entity is built, not taken from the arguments
newTopicLateLookup(h, id) ==
  [id |-> id, name |-> h.name, data |-> h.data,
   deviceId |-> IF h.name \in DOMAIN topicSubscriptions
                THEN topicSubscriptions[h.name].deviceId ELSE h.deviceId,
   zoneId |-> IF h.name \in DOMAIN topicSubscriptions
              THEN topicSubscriptions[h.name].zoneId ELSE h.zoneId,
   isLatest |-> TRUE, msg |-> h.msg]

\* the Topic entity storeTopicData builds; save() gives it the generated id
\* (0 stands for the id of an entity that was not saved)
newTopic(h, id) ==
  [id |-> id, name |-> h.name, data |-> h.data, deviceId |-> h.deviceId,
   zoneId |-> h.zoneId, isLatest |-> TRUE, msg |-> h.msg]

\* ---------------------------------------------------------- Broadcast Router
TopicPrefix == <<"t", "o", "p", "i", "c", ":">>
AllTopicsRoom == <<"a", "l", "l", "-", "t", "o", "p", "i", "c", "s">>

\* faulty variant of broadcastTopicUpdate: zoneData goes to the topic room as well
broadcastTopicUpdateZoneDataTwice(topic, data) ==
  IF ~io THEN <<>>
  ELSE LET topicData == [id |-> topic.id, name |-> topic.name, data |-> data,
                         deviceId |-> topic.deviceId, zoneId |-> topic.zoneId]
       IN << [event |-> "topicUpdate", room |-> TopicPrefix \o topic.name,
              payload |-> topicData, msg |-> topic.msg],
             [event |-> "zoneData", room |-> topic.name,
              payload |-> topicData, msg |-> topic.msg],
             [event |-> "zoneData", room |-> TopicPrefix \o topic.name,
              payload |-> topicData, msg |-> topic.msg],
             [event |-> "topicUpdate", room |-> AllTopicsRoom,
              payload |-> topicData, msg |-> topic.msg] >>

\* faulty variant of broadcastTopicUpdate: the topic room and the all-topics
\* room only, no zone room
broadcastTopicUpdateNoZoneRoom(topic, data) ==
  IF ~io THEN <<>>
  ELSE LET topicData == [id |-> topic.id, name |-> topic.name, data |-> data,
                         deviceId |-> topic.deviceId, zoneId |-> topic.zoneId]
       IN << [event |-> "topicUpdate", room |-> TopicPrefix \o topic.name,
              payload |-> topicData, msg |-> topic.msg],
             [event |-> "topicUpdate", room |-> AllTopicsRoom,
              payload |-> topicData, msg |-> topic.msg] >>

\* WebSocketService.broadcastTopicUpdate: the three emits, in order (the
\* timestamp field, new Date(), is left out of the payload)
broadcastTopicUpdate(topic, data) ==
  IF ~io THEN <<>>
  ELSE LET topicData == [id |-> topic.id, name |-> topic.name, data |-> data,
                         deviceId |-> topic.deviceId, zoneId |-> topic.zoneId]
       IN << [event |-> "topicUpdate", room |-> TopicPrefix \o topic.name,
              payload |-> topicData, msg |-> topic.msg],
             [event |-> "zoneData", room |-> topic.name,
              payload |-> topicData, msg |-> topic.msg],
             [event |-> "topicUpdate", room |-> AllTopicsRoom,
              payload |-> topicData, msg |-> topic.msg] >>

\* faulty variant of storeTopicDataBroadcast: the broadcast does not depend on the save
storeTopicDataBroadcastAlways(saved, topic, data) ==
  broadcastTopicUpdate(topic, data)

\* what storeTopicData emits once save() has settled: the broadcast follows the
\* awaited save inside the try block, so a rejected save skips it
storeTopicDataBroadcast(saved, topic, data) ==
  IF saved /\ io THEN broadcastTopicUpdate(topic, data) ELSE <<>>

\* ------------------------------------------- Broadcast Router: viewer side
\* the socket ids of the viewers, in the order a room lists its sockets
SocketIds == <<"s1", "s2", "s3">>

\* io.sockets.adapter.rooms.get(room): the sockets of a room
roomsGet(rs, room) == {SocketIds[i] : i \in {j \in DOMAIN SocketIds : <<room, SocketIds[j]>> \in rs}}

\* rooms.get(room)?.size || 0
roomSize(rs, room) == Cardinality(roomsGet(rs, room))

\* socket.join(room)
socketJoin(rs, s, room) == rs \cup {<<room, s>>}

\* socket.leave(room)
socketLeave(rs, s, room) == rs \ {<<room, s>>}

\* io.to(room).emit(event, payload): every socket of the room is sent the event
ioToEmit(rs, room, kind, e) ==
  LET members == SelectSeq(SocketIds, LAMBDA s : <<room, s>> \in rs)
  IN [i \in 1..Len(members) |-> [to |-> members[i], kind |-> kind, emit |-> e]]

\* the deliveries of a sequence of emits, each to the room it names
RECURSIVE deliverAll(_, _, _)
deliverAll(rs, kind, events) ==
  IF events = <<>> THEN <<>>
  ELSE ioToEmit(rs, Head(events).room, kind, Head(events))
         \o deliverAll(rs, kind, Tail(events))

\* String.prototype.split(sep), sep one character
RECURSIVE split(_, _)
split(str, sep) ==
  IF str = <<>> THEN << <<>> >>
  ELSE LET rest == split(Tail(str), sep)
       IN IF Head(str) = sep THEN << <<>> >> \o rest
          ELSE << <<Head(str)>> \o Head(rest) >> \o Tail(rest)

\* Array.prototype.join(sep)
RECURSIVE join(_, _)
join(parts, sep) ==
  IF parts = <<>> THEN <<>>
  ELSE IF Len(parts) = 1 THEN parts[1]
  ELSE parts[1] \o <<sep>> \o join(Tail(parts), sep)

\* the event names that have a handler of their own
subscribeEvent   == <<"s", "u", "b", "s", "c", "r", "i", "b", "e">>
unsubscribeEvent == <<"u", "n">> \o subscribeEvent
joinRoomEvent    == <<"j", "o", "i", "n", "-", "r", "o", "o", "m">>
leaveRoomEvent   == <<"l", "e", "a", "v", "e", "-", "r", "o", "o", "m">>

\* the list the onAny listener excludes
ReservedEvents == {subscribeEvent, unsubscribeEvent, joinRoomEvent, leaveRoomEvent}

\* the condition of the onAny listener
onAnyRelays(eventName) ==
  includes(eventName, <<"-">>) /\ eventName \notin ReservedEvents

\* faulty variant of onAnyRoomName: the relay goes to the topic room of the name
onAnyRoomNameTopic(eventName) == TopicPrefix \o split(eventName, "-")[1]

\* eventName.split('-')[0]
onAnyRoomName(eventName) == split(eventName, "-")[1]

\* faulty variant of onAnyEventType: only the segment after the first delimiter
onAnyEventTypeSecond(eventName) == split(eventName, "-")[2]

\* eventName.split('-').slice(1).join('-')
onAnyEventType(eventName) == join(Tail(split(eventName, "-")), "-")

\* {...data, from, timestamp, broadcasted, roomName, eventType} (the timestamp,
\* new Date(), is left out)
onAnyPayload(s, eventName, data) ==
  [k \in DOMAIN data \cup {"from", "broadcasted", "roomName", "eventType"} |->
     CASE k = "from" -> s
       [] k = "broadcasted" -> TRUE
       [] k = "roomName" -> onAnyRoomName(eventName)
       [] k = "eventType" -> onAnyEventType(eventName)
       [] OTHER -> data[k]]

\* faulty variant of onAny: only a member of the room may relay to it
onAnyMembersOnly(s, eventName, data) ==
  IF onAnyRelays(eventName) /\ <<onAnyRoomName(eventName), s>> \in rooms
  THEN << [from |-> s, event |-> eventName, room |-> onAnyRoomName(eventName),
           payload |-> onAnyPayload(s, eventName, data)] >>
  ELSE <<>>

\* socket.onAny: the emit it makes for one inbound event, if any
onAny(s, eventName, data) ==
  IF onAnyRelays(eventName)
  THEN << [from |-> s, event |-> eventName, room |-> onAnyRoomName(eventName),
           payload |-> onAnyPayload(s, eventName, data)] >>
  ELSE <<>>

\* the acknowledgment socket.emit sends back to the viewer itself
ack(s, event, data, clientCount) ==
  << [to |-> s, kind |-> "ack",
      emit |-> [event |-> event, roomName |-> data.roomName,
                deviceName |-> data.deviceName, success |-> TRUE,
                clientCount |-> clientCount]] >>

\* io.on('connection'): the handlers of one viewer are registered
connection(s) ==
  /\ io
  /\ s \notin sockets
  /\ sockets' = sockets \cup {s}
  /\ UNCHANGED <<utilVars, zonePushes, initializeReturnedEarly, lastBusEvent, dbInitialized, zones,
                 client, busUp, isConnected, topicSubscriptions, batches, store,
                 handlers, received, io, emitted, rooms, inbound, relayed,
                 delivered>>

\* one event arrives from viewer s: the onAny listener runs, and the event's
\* own handler leaves the rooms as rs and sends the acknowledgments acks
receive(s, eventName, data, rs, acks) ==
  /\ io
  /\ s \in sockets
  /\ Len(inbound) < MaxViewerEvents
  /\ inbound' = Append(inbound, [from |-> s, event |-> eventName, data |-> data])
  /\ rooms' = rs
  /\ relayed' = relayed \o onAny(s, eventName, data)
  /\ delivered' = delivered \o deliverAll(rooms, "relay", onAny(s, eventName, data))
                            \o acks
  /\ UNCHANGED <<utilVars, zonePushes, initializeReturnedEarly, lastBusEvent, dbInitialized, zones,
                 client, busUp, isConnected, topicSubscriptions, batches, store,
                 handlers, received, io, emitted, sockets>>

\* faulty variant of subscribe: the viewer joins the plain room as well
subscribeJoinsBoth(s, topicName) ==
  receive(s, subscribeEvent, topicName,
          socketJoin(socketJoin(rooms, s, topicName), s, TopicPrefix \o topicName),
          <<>>)

\* socket.on('subscribe')
subscribe(s, topicName) ==
  receive(s, subscribeEvent, topicName,
          socketJoin(rooms, s, TopicPrefix \o topicName), <<>>)

\* socket.on('unsubscribe')
unsubscribe(s, topicName) ==
  receive(s, unsubscribeEvent, topicName,
          socketLeave(rooms, s, TopicPrefix \o topicName), <<>>)

\* faulty variant of joinRoom: the room is counted before the viewer joins it
joinRoomCountsBefore(s, data) ==
  LET joined == socketJoin(socketJoin(rooms, s, data.roomName),
                           s, TopicPrefix \o data.roomName)
  IN receive(s, joinRoomEvent, data, joined,
             ack(s, "room-joined", data, roomSize(rooms, data.roomName)))

\* socket.on('join-room')
joinRoom(s, data) ==
  LET joined == socketJoin(socketJoin(rooms, s, data.roomName),
                           s, TopicPrefix \o data.roomName)
  IN receive(s, joinRoomEvent, data, joined,
             ack(s, "room-joined", data, roomSize(joined, data.roomName)))

\* faulty variant of leaveRoom: the topic room is left only as often as it was
\* joined, so a membership that subscribe acquired survives
leaveRoomPlainOnly(s, data) ==
  LET left == socketLeave(rooms, s, data.roomName)
  IN receive(s, leaveRoomEvent, data, left,
             ack(s, "room-left", data, roomSize(left, data.roomName)))

\* socket.on('leave-room')
leaveRoom(s, data) ==
  LET left == socketLeave(socketLeave(rooms, s, data.roomName),
                          s, TopicPrefix \o data.roomName)
  IN receive(s, leaveRoomEvent, data, left,
             ack(s, "room-left", data, roomSize(left, data.roomName)))

\* an event with no handler of its own: only the onAny listener sees it
customEvent(s, eventName, data) ==
  /\ eventName \notin ReservedEvents
  /\ receive(s, eventName, data, rooms, <<>>)

\* the payload handleMessage passes to storeTopicData
handleMessageData(topic, message) == parseMessage(message)

setOutcome(msg, o) == [received EXCEPT ![msg].outcome = o]

\* client.on('message') -> handleMessage: a topic the registry does not resolve
\* is dropped; otherwise the message is parsed and storeTopicData issues its
\* UPDATE (the call is then in flight, waiting for the database)
onMessage(topic, message) ==
  /\ client
  /\ busUp
  /\ Len(received) < MaxMessages
  /\ LET msg == Len(received) + 1
         topicInfo == topicSubscriptionsGet(topic)
     IN IF ~topicInfo.found
        THEN /\ received' = Append(received,
                   [topic |-> topic, message |-> message, outcome |-> "dropped"])
             /\ UNCHANGED handlers
        ELSE /\ received' = Append(received,
                   [topic |-> topic, message |-> message, outcome |-> "pending"])
             /\ handlers' = handlers \cup
                   {[msg |-> msg, name |-> topic,
                     data |-> handleMessageData(topic, message),
                     deviceId |-> topicInfo.deviceId, zoneId |-> topicInfo.zoneId,
                     pc |-> "update",
                     \* history: the rows of the name, and whether another commit
                     \* for it was in flight, when this commit began
                     rowsBefore |-> RowsOf(topic),
                     aloneAtStart |-> \A h \in handlers : h.name # topic]}
  /\ UNCHANGED <<utilVars, viewerVars, initializeReturnedEarly, lastBusEvent,
                 dbInitialized, zones, client, busUp, isConnected,
                 topicSubscriptions, batches, store, io, emitted>>

\* faulty variant of updateResolves: the calls are served one at a time, in
\* the order of arrival, whatever their topic
updateResolvesSerial(h) ==
  /\ h \in handlers
  /\ h.pc = "update"
  /\ \A g \in handlers : g.msg >= h.msg
  /\ store' = demoteLatest(store, h.name)
  /\ handlers' = (handlers \ {h}) \cup {[h EXCEPT !.pc = "save"]}
  /\ UNCHANGED <<utilVars, viewerVars, initializeReturnedEarly, lastBusEvent,
                 dbInitialized, zones, client, busUp, isConnected,
                 topicSubscriptions, batches, received, io, emitted>>

\* the UPDATE of one storeTopicData call executes and resolves
updateResolves(h) ==
  /\ h \in handlers
  /\ h.pc = "update"
  /\ store' = demoteLatest(store, h.name)
  /\ handlers' = (handlers \ {h}) \cup {[h EXCEPT !.pc = "save"]}
  /\ UNCHANGED <<utilVars, viewerVars, initializeReturnedEarly, lastBusEvent,
                 dbInitialized, zones, client, busUp, isConnected,
                 topicSubscriptions, batches, received, io, emitted>>

\* the UPDATE rejects: caught and logged by storeTopicData
updateRejects(h) ==
  /\ h \in handlers
  /\ h.pc = "update"
  /\ handlers' = handlers \ {h}
  /\ received' = setOutcome(h.msg, "update_failed")
  /\ UNCHANGED <<utilVars, viewerVars, initializeReturnedEarly, lastBusEvent,
                 dbInitialized, zones, client, busUp, isConnected,
                 topicSubscriptions, batches, store, io, emitted>>

\* save(newTopic) inserts the row and resolves; the broadcast follows
saveResolves(h) ==
  /\ h \in handlers
  /\ h.pc = "save"
  /\ LET savedTopic == newTopic(h, Len(store) + 1)
     IN /\ store' = Append(store, savedTopic)
        /\ emitted' = emitted \o storeTopicDataBroadcast(TRUE, savedTopic, h.data)
        /\ delivered' = delivered \o deliverAll(rooms, "broadcast",
                             storeTopicDataBroadcast(TRUE, savedTopic, h.data))
  /\ handlers' = handlers \ {h}
  /\ received' = setOutcome(h.msg, "stored")
  /\ UNCHANGED <<utilVars, zonePushes, initializeReturnedEarly, lastBusEvent, dbInitialized, zones,
                 client, busUp, isConnected, topicSubscriptions, batches, io,
                 sockets, rooms, inbound, relayed>>

\* save(newTopic) rejects: caught and logged by storeTopicData
saveRejects(h) ==
  /\ h \in handlers
  /\ h.pc = "save"
  /\ emitted' = emitted \o storeTopicDataBroadcast(FALSE, newTopic(h, 0), h.data)
  /\ delivered' = delivered \o deliverAll(rooms, "broadcast",
                       storeTopicDataBroadcast(FALSE, newTopic(h, 0), h.data))
  /\ handlers' = handlers \ {h}
  /\ received' = setOutcome(h.msg, "save_failed")
  /\ UNCHANGED <<utilVars, zonePushes, initializeReturnedEarly, lastBusEvent, dbInitialized, zones,
                 client, busUp, isConnected, topicSubscriptions, batches, store,
                 io, sockets, rooms, inbound, relayed>>

\* What viewers send.  A room of their own choosing, and the topic of the
\* first device x zone pair (the zone room of the README, like 00009zone1).
R1 == <<"r", "1">>
N1 == buildTopic(<<"0", "9">>, <<"z", "o", "n", "e", "1">>)

\* the data of a join-room or leave-room event
roomData(roomName) == [roomName |-> roomName, deviceName |-> "device"]

\* the data of a custom event: an object with a roomName field of its own
CustomData == { [v |-> 2, roomName |-> <<"z">>] }

\* custom event names: r1-m, r1-a-b, p (no delimiter), -x (nothing before it)
CustomEventNames ==
  { R1 \o <<"-", "m">>, R1 \o <<"-", "a", "-", "b">>, <<"p">>, <<"-", "x">> }

Sockets == {SocketIds[i] : i \in DOMAIN SocketIds}

\* Topic records handed to the public method broadcastTopicUpdate by a caller
\* other than storeTopicData: one attributed to a device and a zone, one
\* without device and zone (both columns are nullable); msg 0: no bus message
TopicRecords ==
  { [id |-> 1, name |-> buildTopic(<<"0", "9">>, <<"z", "o", "n", "e", "1">>),
     data |-> parseMessage(PlainText), deviceId |-> "dev1", zoneId |-> "zA",
     isLatest |-> TRUE, msg |-> 0],
    [id |-> 2, name |-> StrayTopic,
     data |-> parseMessage(PlainText), deviceId |-> None, zoneId |-> None,
     isLatest |-> TRUE, msg |-> 0] }

\* webSocketService.broadcastTopicUpdate(topic, topic.data), called directly
publishTopicUpdate(topic) ==
  /\ Len(emitted) < 3 * MaxMessages
  /\ emitted' = emitted \o broadcastTopicUpdate(topic, topic.data)
  /\ delivered' = delivered \o deliverAll(rooms, "broadcast",
                       broadcastTopicUpdate(topic, topic.data))
  /\ UNCHANGED <<utilVars, zonePushes, initializeReturnedEarly, lastBusEvent, dbInitialized, zones,
                 client, busUp, isConnected, topicSubscriptions, batches, store,
                 handlers, received, io, sockets, rooms, inbound, relayed>>

\* WebSocketService.getZoneRoomClientCount
getZoneRoomClientCount(zoneName) ==
  IF ~io THEN 0 ELSE roomSize(rooms, zoneName)

\* {...data, zoneName, timestamp, clientCount} (the timestamp is left out)
zoneRoomPayload(zoneName, data, clientCount) ==
  [k \in DOMAIN data \cup {"zoneName", "clientCount"} |->
     CASE k = "zoneName" -> zoneName
       [] k = "clientCount" -> clientCount
       [] OTHER -> data[k]]

\* faulty variant of zoneRoomEmits: the emit is made whatever the occupancy
zoneRoomEmitsAlways(zoneName, eventName, data) ==
  IF ~io THEN <<>>
  ELSE << [event |-> eventName, room |-> zoneName,
           payload |-> zoneRoomPayload(zoneName, data, roomSize(rooms, zoneName)),
           msg |-> 0] >>

\* the emit broadcastToZoneRoom makes, if any: none without io, none for an
\* empty room
zoneRoomEmits(zoneName, eventName, data) ==
  IF ~io THEN <<>>
  ELSE LET clientCount == roomSize(rooms, zoneName)
       IN IF clientCount > 0
          THEN << [event |-> eventName, room |-> zoneName,
                   payload |-> zoneRoomPayload(zoneName, data, clientCount),
                   msg |-> 0] >>
          ELSE <<>>

\* WebSocketService.broadcastToZoneRoom, called by server code
broadcastToZoneRoom(zoneName, eventName, data) ==
  /\ Len(zonePushes) < MaxPushes
  /\ zonePushes' = Append(zonePushes,
        [zoneName |-> zoneName, eventName |-> eventName, data |-> data])
  /\ emitted' = emitted \o zoneRoomEmits(zoneName, eventName, data)
  /\ delivered' = delivered \o deliverAll(rooms, "push",
                       zoneRoomEmits(zoneName, eventName, data))
  /\ UNCHANGED <<utilVars, initializeReturnedEarly, lastBusEvent, dbInitialized,
                 zones, client, busUp, isConnected, topicSubscriptions, batches,
                 store, handlers, received, io, sockets, rooms, inbound, relayed>>

\* ----------------------------------------------------------- specification
Next ==
  \/ InitializeDatabase
  \/ \E z \in ZoneUniverse : createZone(z)
  \/ \E z \in ZoneUniverse : removeZone(z)
  \/ wsInitialize
  \/ initialize
  \/ onConnect
  \/ onClose
  \/ onError
  \/ \E b \in DOMAIN batches : findResolves(b)
  \/ \E b \in DOMAIN batches : findRejects(b)
  \/ \E b \in DOMAIN batches : \E sub \in batches[b].pending, err \in BOOLEAN :
        subscribeCallback(b, sub, err)
  \/ \E b \in DOMAIN batches : batchCompletes(b)
  \/ \E topic \in MessageTopics, message \in RawMessages : onMessage(topic, message)
  \/ \E h \in handlers : updateResolves(h)
  \/ \E h \in handlers : updateRejects(h)
  \/ \E h \in handlers : saveResolves(h)
  \/ \E h \in handlers : saveRejects(h)
  \/ \E s \in Sockets : connection(s)
  \/ \E s \in Sockets, t \in {R1, N1} : subscribe(s, t)
  \/ \E s \in Sockets, t \in {R1, N1} : unsubscribe(s, t)
  \/ \E s \in Sockets, r \in {R1, N1, AllTopicsRoom} : joinRoom(s, roomData(r))
  \/ \E s \in Sockets, r \in {R1, N1, AllTopicsRoom} : leaveRoom(s, roomData(r))
  \/ \E s \in Sockets, e \in CustomEventNames, data \in CustomData :
        customEvent(s, e, data)

\* the whole system
Spec == Init /\ [][Next]_vars

\* Ingestion during the first bus connection: the store's zones only grow, the
\* bus stays up once connected, and the device query succeeds.
NextIngest ==
  \/ InitializeDatabase
  \/ \E z \in ZoneUniverse : createZone(z)
  \/ wsInitialize
  \/ initialize
  \/ onConnect
  \/ \E b \in DOMAIN batches : findResolves(b)
  \/ \E b \in DOMAIN batches : \E sub \in batches[b].pending, err \in BOOLEAN :
        subscribeCallback(b, sub, err)
  \/ \E b \in DOMAIN batches : batchCompletes(b)
  \/ \E topic \in MessageTopics, message \in RawMessages : onMessage(topic, message)
  \/ \E h \in handlers : updateResolves(h)
  \/ \E h \in handlers : updateRejects(h)
  \/ \E h \in handlers : saveResolves(h)
  \/ \E h \in handlers : saveRejects(h)

SpecIngest == Init /\ [][NextIngest]_vars

\* The subscription lifecycle over connects, disconnects and changes of the
\* relational store, with no message traffic.
NextSubscribe ==
  \/ InitializeDatabase
  \/ \E z \in ZoneUniverse : createZone(z)
  \/ \E z \in ZoneUniverse : removeZone(z)
  \/ initialize
  \/ onConnect
  \/ onClose
  \/ onError
  \/ \E b \in DOMAIN batches : findResolves(b)
  \/ \E b \in DOMAIN batches : findRejects(b)
  \/ \E b \in DOMAIN batches : \E sub \in batches[b].pending, err \in BOOLEAN :
        subscribeCallback(b, sub, err)
  \/ \E b \in DOMAIN batches : batchCompletes(b)

SpecSubscribe == Init /\ [][NextSubscribe]_vars

\* The viewer side of the Broadcast Router alone: viewers connect and send
\* events; nothing is ingested.
NextRooms ==
  \/ wsInitialize
  \/ \E s \in Sockets : connection(s)
  \/ \E s \in Sockets, t \in {R1, N1} : subscribe(s, t)
  \/ \E s \in Sockets, t \in {R1, N1} : unsubscribe(s, t)
  \/ \E s \in Sockets, r \in {R1} : joinRoom(s, roomData(r))
  \/ \E s \in Sockets, r \in {R1} : leaveRoom(s, roomData(r))
  \/ \E s \in Sockets, e \in CustomEventNames, data \in CustomData :
        customEvent(s, e, data)

SpecRooms == Init /\ [][NextRooms]_vars

\* Ingestion with viewers: the first device x zone pair is subscribed, zone
\* payloads arrive on its topic and commit, while viewers connect and enter
\* the topic room, the zone room and the all-topics room (the third viewer
\* only connects).
NextDeliver ==
  \/ InitializeDatabase
  \/ \E z \in {y \in ZoneUniverse : y.id = "zA"} : createZone(z)
  \/ wsInitialize
  \/ initialize
  \/ onConnect
  \/ \E b \in DOMAIN batches : findResolves(b)
  \/ \E b \in DOMAIN batches : \E sub \in batches[b].pending :
        subscribeCallback(b, sub, FALSE)
  \/ \E b \in DOMAIN batches : batchCompletes(b)
  \/ \E topic \in {N1}, message \in {ZoneText} : onMessage(topic, message)
  \/ \E h \in handlers : updateResolves(h)
  \/ \E h \in handlers : saveResolves(h)
  \/ \E s \in Sockets : connection(s)
  \/ \E s \in {"s1"} : subscribe(s, N1)
  \/ \E s \in {"s2"}, r \in {N1, AllTopicsRoom} : joinRoom(s, roomData(r))

SpecDeliver == Init /\ [][NextDeliver]_vars

\* The public method of the Broadcast Router applied to topic records, with
\* viewers in the rooms it addresses.
NextPublish ==
  \/ wsInitialize
  \/ \E s \in Sockets : connection(s)
  \/ \E s \in {"s1"}, t \in {N1, StrayTopic} : subscribe(s, t)
  \/ \E s \in {"s2"}, r \in {N1, StrayTopic} : joinRoom(s, roomData(r))
  \/ \E topic \in TopicRecords : publishTopicUpdate(topic)
  \/ \E zoneName \in {N1, R1}, data \in CustomData :
        broadcastToZoneRoom(zoneName, "alarm", data)

SpecPublish == Init /\ [][NextPublish]_vars

\* Two zones of the device numbered #7 whose names differ in a character that
\* buildTopic replaces: a+ and a_ (Zone.name carries no unique constraint).
CollidingZones ==
  { [id |-> "zB", name |-> <<"a", "+">>, deviceId |-> "dev2"],
    [id |-> "zC", name |-> <<"a", "_">>, deviceId |-> "dev2"] }

\* The subscription lifecycle over those two zones.
NextCollide ==
  \/ InitializeDatabase
  \/ \E z \in CollidingZones : createZone(z)
  \/ initialize
  \/ onConnect
  \/ onClose
  \/ \E b \in DOMAIN batches : findResolves(b)
  \/ \E b \in DOMAIN batches : \E sub \in batches[b].pending :
        subscribeCallback(b, sub, FALSE)
  \/ \E b \in DOMAIN batches : batchCompletes(b)

SpecCollide == Init /\ [][NextCollide]_vars

\* Messages on the one topic of the two colliding zones, while reconnects
\* change what the registry maps that topic to.
NextAttribute ==
  \/ InitializeDatabase
  \/ \E z \in CollidingZones : createZone(z)
  \/ initialize
  \/ onConnect
  \/ onClose
  \/ \E b \in DOMAIN batches : findResolves(b)
  \/ \E b \in DOMAIN batches : \E sub \in batches[b].pending :
        subscribeCallback(b, sub, FALSE)
  \/ \E b \in DOMAIN batches : batchCompletes(b)
  \/ \E topic \in {buildTopic(<<"#", "7">>, <<"a", "+">>), StrayTopic} :
        onMessage(topic, PlainText)
  \/ \E h \in handlers : updateResolves(h)
  \/ \E h \in handlers : saveResolves(h)

SpecAttribute == Init /\ [][NextAttribute]_vars

\* Two viewers and one room name r1, named by all four membership events;
\* join-room and leave-room also name the room topic:r1 itself.
NextMembership ==
  \/ wsInitialize
  \/ \E s \in {"s1", "s2"} : connection(s)
  \/ \E s \in {"s1", "s2"} : subscribe(s, R1)
  \/ \E s \in {"s1", "s2"} : unsubscribe(s, R1)
  \/ \E s \in {"s1", "s2"}, r \in {R1, TopicPrefix \o R1} : joinRoom(s, roomData(r))
  \/ \E s \in {"s1", "s2"}, r \in {R1, TopicPrefix \o R1} : leaveRoom(s, roomData(r))

SpecMembership == Init /\ [][NextMembership]_vars

\* the names of the events the server itself sends, as a viewer may type them
topicUpdateName == <<"t", "o", "p", "i", "c", "U", "p", "d", "a", "t", "e">>
zoneDataName == <<"z", "o", "n", "e", "D", "a", "t", "a">>
roomJoinedName == <<"r", "o", "o", "m", "-", "j", "o", "i", "n", "e", "d">>
roomLeftName == <<"r", "o", "o", "m", "-", "l", "e", "f", "t">>

ProtocolEventNames == {topicUpdateName, zoneDataName, roomJoinedName, roomLeftName}

\* the room a relayed room-joined or room-left goes to
RoomRoom == <<"r", "o", "o", "m">>

\* Viewers that send events named like the server's own, with viewers in the
\* room named room.
NextSpoof ==
  \/ wsInitialize
  \/ \E s \in {"s1", "s2"} : connection(s)
  \/ \E s \in {"s1", "s2"}, r \in {RoomRoom, R1} : joinRoom(s, roomData(r))
  \/ \E s \in {"s1", "s2"}, e \in ProtocolEventNames, data \in CustomData :
        customEvent(s, e, data)

SpecSpoof == Init /\ [][NextSpoof]_vars

\* ------------------------------------------------------- history query
\* the limit used when the request gives none (or gives 0, or no number)
DefaultLimit == 100

\* req.query.limit: absent, or a number
LimitInputs == {[given |-> FALSE]} \cup {[given |-> TRUE, value |-> n] : n \in 0..2}

\* parseInt(req.query.limit as string) || 100
parseLimit(q) == IF q.given /\ q.value # 0 THEN q.value ELSE DefaultLimit

\* find({where: {name}, order: {createdAt: 'DESC'}, take: limit}): the rows
\* of the name, the one inserted last first
historyRows(name, limit) ==
  LET ofName == SelectSeq(store, LAMBDA r : r.name = name)
      count == Min(limit, Len(ofName))
  IN [i \in 1..count |-> ofName[Len(ofName) + 1 - i]]

\* getTopicHistoricalData up to its first await: findOne({where: {name,
\* isLatest: true}}) answers with one of the latest rows of the name, or with
\* none, and then the response is 404
historyFindOne(name, q) ==
  /\ utilCall.fn = None
  /\ IF LatestOf(name) = {}
     THEN /\ utilCall' = [fn |-> "getTopicHistoricalData", name |-> name,
                          limit |-> q, pc |-> "done"]
          /\ utilReturn' = [status |-> 404]
     ELSE \E latestTopic \in LatestOf(name) :
            /\ utilCall' = [fn |-> "getTopicHistoricalData", name |-> name,
                            limit |-> q, pc |-> "find",
                            latestTopic |-> [id |-> latestTopic.id,
                                             name |-> latestTopic.name]]
            /\ utilReturn' = None
  /\ UNCHANGED <<serverVars, viewerVars>>

\* the second query of getTopicHistoricalData answers: the response is 200
\* with the rows found now
historyFind ==
  /\ utilCall.fn = "getTopicHistoricalData"
  /\ utilCall.pc = "find"
  /\ utilCall' = [utilCall EXCEPT !.pc = "done"]
  /\ utilReturn' =
       [status |-> 200, topic |-> utilCall.latestTopic,
        history |-> [i \in DOMAIN historyRows(utilCall.name, parseLimit(utilCall.limit)) |->
                       LET item == historyRows(utilCall.name, parseLimit(utilCall.limit))[i]
                       IN [id |-> item.id, data |-> item.data,
                           isLatest |-> item.isLatest]]]
  /\ UNCHANGED <<serverVars, viewerVars>>

\* Ingestion on the topic of the first device x zone pair, with a reader of
\* the history of that topic and of a topic that has no record.
NextHistory ==
  \/ InitializeDatabase
  \/ \E z \in {y \in ZoneUniverse : y.id = "zA"} : createZone(z)
  \/ initialize
  \/ onConnect
  \/ \E b \in DOMAIN batches : findResolves(b)
  \/ \E b \in DOMAIN batches : \E sub \in batches[b].pending :
        subscribeCallback(b, sub, FALSE)
  \/ \E b \in DOMAIN batches : batchCompletes(b)
  \/ onMessage(N1, PlainText)
  \/ \E h \in handlers : updateResolves(h)
  \/ \E h \in handlers : saveResolves(h)
  \/ \E h \in handlers : saveRejects(h)
  \/ \E name \in {N1, StrayTopic}, q \in LimitInputs : historyFindOne(name, q)
  \/ historyFind

SpecHistory == Init /\ [][NextHistory]_vars

\* ------------------------------------------------ calls of pure functions
\* the characters of device numbers and zone names: a digit, a letter, the
\* two MQTT wildcards and the character that replaces them
NameChars == {"0", "z", "#", "+", "_"}

NameStrings == UNION { [1..n -> NameChars] : n \in 0..MaxNameLen }

\* the example of the README: device 00009, zone zone1
ExampleDevice == <<"0", "0", "0", "0", "9">>
ExampleZone == <<"z", "o", "n", "e", "1">>

\* mqttService.buildTopic(deviceNumber, zoneName), called by any code (the
\* functions keep no state, so one call per behaviour is observed)
callBuildTopic(deviceNumber, zoneName) ==
  /\ utilCall.fn = None
  /\ utilCall' = [fn |-> "buildTopic", deviceNumber |-> deviceNumber,
                  zoneName |-> zoneName]
  /\ utilReturn' = buildTopic(deviceNumber, zoneName)
  /\ UNCHANGED <<serverVars, viewerVars>>

\* the integers handed to the two converters
Values == (-MaxValue)..MaxValue

\* convertTo8BitSignedBinary(value), called by any code
callConvertTo8BitSignedBinary(value) ==
  /\ utilCall.fn = None
  /\ utilCall' = [fn |-> "convertTo8BitSignedBinary", value |-> value]
  /\ utilReturn' = convertTo8BitSignedBinary(value)
  /\ UNCHANGED <<serverVars, viewerVars>>

\* convertDecimalPlace(value), called by any code
callConvertDecimalPlace(value) ==
  /\ utilCall.fn = None
  /\ utilCall' = [fn |-> "convertDecimalPlace", value |-> value]
  /\ utilReturn' = convertDecimalPlace(value)
  /\ UNCHANGED <<serverVars, viewerVars>>

\* topic names: with one hint, with two, with none (a derived one and one
\* that stops short of the digit)
UtilTopics ==
  { <<"0", "9", "z", "o", "n", "e", "1">>,
    <<"z", "o", "n", "e", "2">>,
    <<"x", "z", "o", "n", "e", "3">>,
    <<"z", "o", "n", "e", "2", "z", "o", "n", "e", "1">>,
    <<"_", "7", "a", "_">>,
    <<"z", "o", "n", "e">> }

\* field names of the nested d object: one specific to each zone type (all of
\* the decimal class), one of the decimal class specific to none, two of the
\* binary class, one of the as-is class and one of no class
d210 == <<"d", "2", "1", "0">>
d220 == <<"d", "2", "2", "0">>
d599 == <<"d", "5", "9", "9">>
y12 == <<"y", "1", "2">>

UtilFieldNames == {d200, d210, d220, d599, x0, y12, m550, nFld}

\* field values: two arrays of numbers and a number
UtilFieldValues ==
  { Arr(<<Num(345), Num(0)>>), Arr(<<Num(-1), Num(200), Num(-7)>>), Num(5) }

\* nested d objects of at most MaxFields fields
UtilObjects ==
  UNION { [names -> UtilFieldValues] :
            names \in {ns \in SUBSET UtilFieldNames : Cardinality(ns) <= MaxFields} }

\* payload objects: d and ts, d alone, no d, a falsy d, a d that is no object
UtilPayloads ==
  { [d |-> Obj(f), ts |-> Txt("t1")] : f \in UtilObjects }
    \cup { [d |-> Obj(f)] : f \in UtilObjects }
    \cup { [a |-> Num(1)], [d |-> Num(0), ts |-> Txt("t1")],
           [d |-> Num(5), ts |-> Txt("t1")] }

\* detectZoneType(topic, data), called by any code
callDetectZoneType(topic, data) ==
  /\ utilCall.fn = None
  /\ utilCall' = [fn |-> "detectZoneType", topic |-> topic, data |-> data]
  /\ utilReturn' = detectZoneType(topic, data)
  /\ UNCHANGED <<serverVars, viewerVars>>

\* processDataForWebsocket(topic, data), called by any code: what it returns
\* and what its argument object holds afterwards
callProcessDataForWebsocket(topic, data) ==
  /\ utilCall.fn = None
  /\ utilCall' = [fn |-> "processDataForWebsocket", topic |-> topic, data |-> data]
  /\ utilReturn' = [value |-> processDataForWebsocket(topic, data),
                    argument |-> processDataForWebsocketArgument(topic, data)]
  /\ UNCHANGED <<serverVars, viewerVars>>

\* The exported pure functions, each called on inputs of a bounded set.
NextUtil ==
  \/ \E deviceNumber \in NameStrings \cup {ExampleDevice},
        zoneName \in NameStrings \cup {ExampleZone} :
        callBuildTopic(deviceNumber, zoneName)
  \/ \E value \in Values : callConvertTo8BitSignedBinary(value)
  \/ \E value \in Values : callConvertDecimalPlace(value)
  \/ \E topic \in UtilTopics, data \in UtilPayloads : callDetectZoneType(topic, data)
  \/ \E topic \in UtilTopics, data \in UtilPayloads :
        callProcessDataForWebsocket(topic, data)

SpecUtil == Init /\ [][NextUtil]_vars

\* ================================================================ claims
MsgIds == DOMAIN received

\* the messages of topic n that started a commit
CommitsOf(n) == {m \in MsgIds : received[m].topic = n /\ received[m].outcome # "dropped"}

\* no other commit for h's name overlaps commit h
Alone(h) ==
  /\ h.aloneAtStart
  /\ \A m \in MsgIds : m > h.msg => received[m].topic # h.name

\* C1: for every topic name, once every commit for it has completed (all of
\* them successfully, at least one), exactly one stored record of that name has
\* isLatest = true; and with no commit for the name no record of it is latest.
C1_ExactlyOneLatestAfterCommits ==
  \A n \in MessageTopics :
    /\ (/\ CommitsOf(n) # {}
        /\ \A m \in CommitsOf(n) : received[m].outcome = "stored")
          => Cardinality(LatestOf(n)) = 1
    /\ CommitsOf(n) = {} => LatestOf(n) = {}

\* C2: in every reachable state, commits in flight or not, at most one record
\* per topic name has isLatest = true.
C2_AtMostOneLatest ==
  \A n \in MessageTopics : Cardinality(LatestOf(n)) <= 1

\* C3: between the demote step and the insert step of a commit for a name that
\* had a latest record when the commit began (and with no other commit for the
\* name overlapping it), a reader still sees a record of that name with
\* isLatest = true.
C3_NoStateWithoutLatest ==
  \A h \in handlers :
    (/\ h.pc = "save"
     /\ Alone(h)
     /\ \E r \in h.rowsBefore : r.isLatest)
      => LatestOf(h.name) # {}

\* C4: when the insert step of a commit fails (no other commit for the name
\* overlapping it), the records of its name are exactly those present when the
\* commit began: the former latest record is still latest and no new record
\* exists.
C4_FailedInsertLeavesStore ==
  [][\A h \in handlers :
       (h.pc = "save" /\ Alone(h) /\ received'[h.msg].outcome = "save_failed")
         => RowsOf(h.name)' = h.rowsBefore]_vars

\* the step in which message Len(received) + 1 is delivered
Arrives == Len(received') = Len(received) + 1

NewMsg == received'[Len(received')]

RowsOfMsg(m) == {store[i] : i \in {j \in DOMAIN store : store[j].msg = m}}

EventsOfMsg(m) == {emitted[i] : i \in {j \in DOMAIN emitted : emitted[j].msg = m}}

\* C5: a message on a topic the registry does not resolve is dropped on
\* arrival: the step starts no commit, changes no record, emits nothing and
\* leaves the registry unchanged, and no record, commit or event ever stems
\* from a dropped message.
C5_UnresolvedTopicDropped ==
  /\ [][(Arrives /\ NewMsg.topic \notin DOMAIN topicSubscriptions)
          => /\ NewMsg.outcome = "dropped"
             /\ handlers' = handlers
             /\ store' = store
             /\ emitted' = emitted
             /\ topicSubscriptions' = topicSubscriptions]_vars
  /\ [](\A m \in MsgIds : received[m].outcome = "dropped"
          => /\ RowsOfMsg(m) = {}
             /\ EventsOfMsg(m) = {}
             /\ \A h \in handlers : h.msg # m)

\* a message was dropped while the store holds a latest record and the router
\* is initialized
C5_Witness ==
  /\ io
  /\ \E m \in MsgIds : received[m].outcome = "dropped"
  /\ \E i \in DOMAIN store : store[i].isLatest

Undecodable(message) == ~JSONparse(message).ok

RawObject(message) == [rawData |-> Txt(message)]

\* C6: a message on a registered topic whose bytes do not parse is not
\* dropped: a commit starts with the payload {rawData: <text>}; when its save
\* succeeds exactly one record of that topic with that payload is added and,
\* the router being initialized, the three events carrying it are emitted.
C6_UndecodableStillRecorded ==
  /\ [][(Arrives /\ NewMsg.topic \in DOMAIN topicSubscriptions
           /\ Undecodable(NewMsg.message))
          => \E h \in handlers' \ handlers :
               /\ h.msg = Len(received')
               /\ h.name = NewMsg.topic
               /\ h.data = RawObject(NewMsg.message)]_vars
  /\ [][\A h \in handlers :
          (Undecodable(received[h.msg].message) /\ received'[h.msg].outcome = "stored")
            => /\ Len(store') = Len(store) + 1
               /\ store'[Len(store')].name = received[h.msg].topic
               /\ store'[Len(store')].data = RawObject(received[h.msg].message)
               /\ io => /\ Len(emitted') = Len(emitted) + 3
                        /\ \A i \in (Len(emitted) + 1)..Len(emitted') :
                             /\ emitted'[i].payload.data = RawObject(received[h.msg].message)
                             /\ emitted'[i].payload.id = store'[Len(store')].id]_vars
  /\ [](\A m \in MsgIds :
          /\ Cardinality(RowsOfMsg(m)) <= 1
          /\ received[m].outcome = "stored" => Cardinality(RowsOfMsg(m)) = 1)

\* an undecodable message was stored and broadcast
C6_Witness ==
  \E m \in MsgIds :
    /\ Undecodable(received[m].message)
    /\ received[m].outcome = "stored"
    /\ EventsOfMsg(m) # {}

Failed(m) == received[m].outcome \in {"update_failed", "save_failed"}

\* C7: every emitted event belongs to a message whose commit succeeded and
\* carries the id of the record that commit inserted; a message whose commit
\* failed has no event, no record and no further commit attempt.
C7_BroadcastOnlyAfterCommit ==
  /\ \A i \in DOMAIN emitted :
       /\ received[emitted[i].msg].outcome = "stored"
       /\ \E r \in RowsOfMsg(emitted[i].msg) : r.id = emitted[i].payload.id
  /\ \A m \in MsgIds : Failed(m)
       => /\ EventsOfMsg(m) = {}
          /\ RowsOfMsg(m) = {}
          /\ \A h \in handlers : h.msg # m

\* a save failed with the router initialized, while another message was broadcast
C7_Witness ==
  /\ io
  /\ \E m \in MsgIds : received[m].outcome = "save_failed"
  /\ emitted # <<>>

\* C8: the payload committed and broadcast for a message is the output of the
\* Payload Normalizer applied to the decoded payload.
C8_CommittedPayloadIsNormalized ==
  /\ \A i \in DOMAIN store :
       store[i].data = processDataForWebsocket(store[i].name,
                          parseMessage(received[store[i].msg].message))
  /\ \A i \in DOMAIN emitted :
       emitted[i].payload.data = processDataForWebsocket(emitted[i].payload.name,
                                    parseMessage(received[emitted[i].msg].message))

DeviceOf(z) == CHOOSE d \in DeviceUniverse : d.id = z.deviceId

PairTopics(zs) == {sanitize(DeviceOf(z).deviceNumber) \o sanitize(z.name) : z \in zs}

\* C9: every bus connect event, the first and each reconnect, starts a
\* derivation; when its device query answers, a subscribe is issued for the
\* topic of every device x zone pair the store holds at that moment.
C9_ConnectResubscribesCurrentPairs ==
  /\ [][(busUp' /\ ~busUp)
          => /\ Len(batches') = Len(batches) + 1
             /\ batches'[Len(batches')].phase = "finding"]_vars
  /\ [][\A b \in DOMAIN batches :
          (batches[b].phase = "finding" /\ batches'[b].phase = "subscribing")
            => {sub.topic : sub \in batches'[b].pending} = PairTopics(zones)]_vars

\* after a reconnect, a subscribe is pending for a pair the first batch did not have
C9_Witness ==
  /\ Len(batches) = 2
  /\ batches[1].phase = "done"
  /\ batches[2].phase = "subscribing"
  /\ \E sub \in batches[2].pending : sub \notin batches[1].derived

\* C10: once the latest subscription batch has completed with every subscribe
\* successful (no earlier batch having overlapped it), the registry resolves
\* exactly the topics that batch derived from the store.
C10_RegistryReplacedWholesale ==
  (/\ batches # <<>>
   /\ batches[Len(batches)].sequential
   /\ batches[Len(batches)].phase = "done"
   /\ batches[Len(batches)].failed = {})
    => DOMAIN topicSubscriptions = {sub.topic : sub \in batches[Len(batches)].derived}

Registered(sub) ==
  /\ sub.topic \in DOMAIN topicSubscriptions
  /\ topicSubscriptions[sub.topic] = [deviceId |-> sub.deviceId, zoneId |-> sub.zoneId]

\* C11: within one subscription batch a subscribe callback, failed or not,
\* leaves the batch running with the other subscribes still pending; a
\* successful one enters its topic in the registry with its device and zone
\* ids, a failed one leaves the registry unchanged (so the first batch never
\* enters a topic whose subscribe failed); the batch can complete as soon as no
\* callback is pending, and a completed batch has every topic it derived,
\* except the failed ones, in the registry.
C11_FailedSubscribeDoesNotAbortBatch ==
  /\ [][\A b \in DOMAIN batches :
          (batches[b].phase = "subscribing" /\ batches'[b].pending # batches[b].pending)
            => /\ batches'[b].phase = "subscribing"
               /\ batches'[b].pending \subseteq batches[b].pending
               /\ \A sub \in batches[b].pending \ batches'[b].pending :
                    IF sub \in batches'[b].failed
                    THEN topicSubscriptions' = topicSubscriptions
                    ELSE /\ sub.topic \in DOMAIN topicSubscriptions'
                         /\ topicSubscriptions'[sub.topic] =
                              [deviceId |-> sub.deviceId, zoneId |-> sub.zoneId]]_vars
  /\ [](\A b \in DOMAIN batches :
          /\ batches[b].phase = "done"
               => /\ batches[b].pending = {}
                  /\ \A sub \in batches[b].derived \ batches[b].failed : Registered(sub)
          /\ (batches[b].phase = "subscribing" /\ batches[b].pending = {})
               => ENABLED batchCompletes(b))
  /\ [](Len(batches) = 1
          => \A sub \in batches[1].failed : sub.topic \notin DOMAIN topicSubscriptions)

\* a batch completed in which one subscribe failed and another was registered
C11_Witness ==
  \E b \in DOMAIN batches :
    /\ batches[b].phase = "done"
    /\ batches[b].failed # {}
    /\ \E sub \in batches[b].derived \ batches[b].failed : Registered(sub)
    /\ \E sub \in batches[b].failed : sub.topic \notin DOMAIN topicSubscriptions

\* C12: a step taken while the relational store is not initialized, an
\* initialize() call included, creates no bus client; while there is no client
\* no handler has ever run (not connected, no bus event, no batch, no registry
\* entry, no message); and the client appears only in a step that changes
\* nothing else, an initialize() call made with the store initialized.
C12_InitializeFailsFast ==
  /\ [][~dbInitialized => ~client']_vars
  /\ [](~client => /\ ~isConnected
                   /\ ~busUp
                   /\ lastBusEvent = None
                   /\ batches = <<>>
                   /\ topicSubscriptions = <<>>
                   /\ received = <<>>)
  /\ [][(~client /\ client')
          => /\ dbInitialized
             /\ UNCHANGED <<dbInitialized, zones, busUp, isConnected,
                            topicSubscriptions, batches, store, handlers,
                            received, io, emitted, lastBusEvent, viewerVars>>]_vars

\* initialize() returned early, the store became ready and got a zone
\* afterwards, and the pipeline still has no client
C12_Witness ==
  /\ initializeReturnedEarly
  /\ dbInitialized
  /\ zones # {}
  /\ ~client

\* C13: isConnected (what isConnectedToBroker() returns) is false initially
\* and true exactly when the most recent bus event among connect, error and
\* close was connect; an error or close event changes nothing of the pipeline
\* but this flag.
C13_ConnectivityFollowsLastBusEvent ==
  /\ [](isConnected <=> lastBusEvent = "connect")
  /\ [][(lastBusEvent' # lastBusEvent /\ lastBusEvent' \in {"error", "close"})
          => /\ ~isConnected'
             /\ UNCHANGED <<dbInitialized, zones, client, topicSubscriptions,
                            batches, store, handlers, received, io, emitted,
                            viewerVars>>]_vars

\* an error arrived while the bus connection was up, after a reconnect
C13_Witness ==
  /\ lastBusEvent = "error"
  /\ busUp
  /\ ~isConnected
  /\ Len(batches) = 2

\* the step in which an event of a viewer is received
Sends == Len(inbound') = Len(inbound) + 1

NewIn == inbound'[Len(inbound')]

\* the viewers the step's handlers sent something of the given kind
SentTo(kind) ==
  {delivered'[i].to : i \in {j \in (Len(delivered) + 1)..Len(delivered') :
                                delivered'[j].kind = kind}}

MembersOf(rs, room) == {v \in Sockets : <<room, v>> \in rs}

\* no membership but that of viewer s in room changes in the step
OnlyChanges(s, room) ==
  \A p \in rooms \cup rooms' : p # <<room, s>> => (p \in rooms <=> p \in rooms')

\* C16: subscribe(t) makes the sending viewer a member of room topic:t and
\* unsubscribe(t) removes it from that room; no other membership, of this
\* viewer or of another, changes in either step.
C16_SubscribeTouchesOneMembership ==
  [][Sends =>
       /\ NewIn.event = subscribeEvent
            => /\ <<TopicPrefix \o NewIn.data, NewIn.from>> \in rooms'
               /\ OnlyChanges(NewIn.from, TopicPrefix \o NewIn.data)
       /\ NewIn.event = unsubscribeEvent
            => /\ <<TopicPrefix \o NewIn.data, NewIn.from>> \notin rooms'
               /\ OnlyChanges(NewIn.from, TopicPrefix \o NewIn.data)]_vars

\* a viewer that joined a room pair and subscribed to another topic has
\* unsubscribed from it again, other memberships still standing
C16_Witness ==
  /\ Len(inbound) = 3
  /\ inbound[1].event = joinRoomEvent
  /\ inbound[1].from = inbound[2].from
  /\ inbound[2].event = subscribeEvent
  /\ inbound[3].event = unsubscribeEvent
  /\ inbound[3].from = inbound[2].from
  /\ inbound[3].data = inbound[2].data
  /\ <<TopicPrefix \o inbound[3].data, inbound[3].from>> \notin rooms
  /\ rooms # {}

\* the acknowledgment the step sent: the last event delivered
NewAck == delivered'[Len(delivered')]

\* C17: join-room({roomName: r}) leaves the viewer a member of r and of
\* topic:r and answers it with one room-joined whose clientCount is the number
\* of members of r after the join, at least 1; leave-room leaves it a member
\* of neither and answers with one room-left whose clientCount is the number
\* of members of r that remain.
C17_JoinLeaveBothRoomsAndCount ==
  [][Sends =>
       /\ NewIn.event = joinRoomEvent
            => /\ <<NewIn.data.roomName, NewIn.from>> \in rooms'
               /\ <<TopicPrefix \o NewIn.data.roomName, NewIn.from>> \in rooms'
               /\ Len(delivered') = Len(delivered) + 1
               /\ NewAck.to = NewIn.from
               /\ NewAck.kind = "ack"
               /\ NewAck.emit.event = "room-joined"
               /\ NewAck.emit.clientCount
                    = Cardinality(MembersOf(rooms', NewIn.data.roomName))
               /\ NewAck.emit.clientCount >= 1
       /\ NewIn.event = leaveRoomEvent
            => /\ <<NewIn.data.roomName, NewIn.from>> \notin rooms'
               /\ <<TopicPrefix \o NewIn.data.roomName, NewIn.from>> \notin rooms'
               /\ Len(delivered') = Len(delivered) + 1
               /\ NewAck.to = NewIn.from
               /\ NewAck.kind = "ack"
               /\ NewAck.emit.event = "room-left"
               /\ NewAck.emit.clientCount
                    = Cardinality(MembersOf(rooms', NewIn.data.roomName))]_vars

\* two viewers joined a room, the second was told 2, and one that left was
\* told 1
C17_Witness ==
  /\ Len(delivered) = 3
  /\ delivered[2].kind = "ack"
  /\ delivered[2].emit.event = "room-joined"
  /\ delivered[2].emit.clientCount = 2
  /\ delivered[3].kind = "ack"
  /\ delivered[3].emit.event = "room-left"
  /\ delivered[3].emit.clientCount = 1

HasDash(e) == \E i \in DOMAIN e : e[i] = "-"

FirstDash(e) == CHOOSE i \in DOMAIN e : e[i] = "-" /\ \A j \in 1..(i - 1) : e[j] # "-"

\* the part of the name before its first '-' and the part after it
RoomPart(e) == SubSeq(e, 1, FirstDash(e) - 1)

TypePart(e) == SubSeq(e, FirstDash(e) + 1, Len(e))

ReservedNames ==
  { <<"s", "u", "b", "s", "c", "r", "i", "b", "e">>,
    <<"u", "n", "s", "u", "b", "s", "c", "r", "i", "b", "e">>,
    <<"j", "o", "i", "n", "-", "r", "o", "o", "m">>,
    <<"l", "e", "a", "v", "e", "-", "r", "o", "o", "m">> }

Dynamic(e) == HasDash(e) /\ e \notin ReservedNames

\* C18: when a viewer sends a dynamic event r-<type>, a viewer other than the
\* sender is sent the event in that step exactly when it is a member of room
\* r (membership of topic:r alone, or of no room, does not count), and every
\* copy carries the event name, the sender's data and roomName = r,
\* eventType = <type>, broadcasted = true.
C18_RelayReachesRoomMembers ==
  [][(Sends /\ Dynamic(NewIn.event)) =>
       /\ \A v \in Sockets \ {NewIn.from} :
            v \in SentTo("relay") <=> <<RoomPart(NewIn.event), v>> \in rooms
       /\ \A i \in (Len(delivered) + 1)..Len(delivered') :
            /\ delivered'[i].kind = "relay"
            /\ delivered'[i].emit.event = NewIn.event
            /\ delivered'[i].emit.payload.roomName = RoomPart(NewIn.event)
            /\ delivered'[i].emit.payload.eventType = TypePart(NewIn.event)
            /\ delivered'[i].emit.payload.broadcasted = TRUE
            /\ \A k \in DOMAIN NewIn.data \ {"roomName"} :
                 delivered'[i].emit.payload[k] = NewIn.data[k]]_vars

\* a viewer's r1 event reached a member of r1 while a third viewer, a member
\* of topic:r1 only, was sent nothing
C18_Witness ==
  \E a, b, c \in Sockets :
    /\ a # b /\ b # c /\ a # c
    /\ Len(inbound) = 3
    /\ inbound[3].from = a
    /\ Dynamic(inbound[3].event)
    /\ RoomPart(inbound[3].event) = R1
    /\ <<R1, b>> \in rooms
    /\ <<R1, c>> \notin rooms
    /\ <<TopicPrefix \o R1, c>> \in rooms
    /\ \E i \in DOMAIN delivered : delivered[i].kind = "relay" /\ delivered[i].to = b
    /\ \A i \in DOMAIN delivered : delivered[i].to # c

\* C19: no viewer is ever sent the relayed copy of an event it originated.
C19_OriginatorGetsNoCopy ==
  \A i \in DOMAIN delivered :
    delivered[i].kind = "relay" => delivered[i].to # delivered[i].emit.from

\* C20: an inbound event is relayed (one emit is made for it) exactly when
\* its name contains '-' and is none of subscribe, unsubscribe, join-room,
\* leave-room; the emit then goes to the room named by the part before the
\* first '-', with the part after it as event type, and room name, '-' and
\* event type together give back the event name.
C20_RelayIffDynamicName ==
  [][Sends =>
       /\ Len(relayed') \in {Len(relayed), Len(relayed) + 1}
       /\ Len(relayed') = Len(relayed) + 1 <=> Dynamic(NewIn.event)
       /\ Dynamic(NewIn.event)
            => LET relay == relayed'[Len(relayed')]
               IN /\ relay.event = NewIn.event
                  /\ relay.room = RoomPart(NewIn.event)
                  /\ relay.payload.roomName = RoomPart(NewIn.event)
                  /\ relay.payload.eventType = TypePart(NewIn.event)
                  /\ relay.payload.roomName \o <<"-">> \o relay.payload.eventType
                       = NewIn.event]_vars

\* r1-a-b was relayed with event type a-b, while a join-room and an event
\* without delimiter were not
C20_Witness ==
  /\ \E i \in DOMAIN inbound : inbound[i].event = joinRoomEvent
  /\ \E i \in DOMAIN inbound : ~HasDash(inbound[i].event)
         /\ inbound[i].event \notin ReservedNames
  /\ Len(relayed) = 1
  /\ relayed[1].payload.eventType = <<"a", "-", "b">>

\* C14: when the commit of a message on topic n succeeds, a viewer is sent a
\* topicUpdate through room topic:n exactly when it is a member of topic:n,
\* a topicUpdate through room all-topics exactly when it is a member of
\* all-topics, and a zoneData through room n exactly when it is a member of
\* n; each carries the id, name, data, deviceId and zoneId of the record just
\* committed, and nothing else is sent to anyone in that step.
C14_BroadcastReachesRoomMembers ==
  [][\A m \in DOMAIN received :
       (received[m].outcome = "pending" /\ received'[m].outcome = "stored")
         => LET rec == store'[Len(store')]
                n == received[m].topic
                P == [id |-> rec.id, name |-> rec.name, data |-> rec.data,
                      deviceId |-> rec.deviceId, zoneId |-> rec.zoneId]
                New == (Len(delivered) + 1)..Len(delivered')
                Got(v, event, room) ==
                  \E i \in New : /\ delivered'[i].to = v
                                 /\ delivered'[i].emit.event = event
                                 /\ delivered'[i].emit.room = room
            IN /\ Len(store') = Len(store) + 1
               /\ rec.msg = m
               /\ rec.name = n
               /\ \A v \in Sockets :
                    /\ Got(v, "topicUpdate", TopicPrefix \o n)
                         <=> <<TopicPrefix \o n, v>> \in rooms
                    /\ Got(v, "topicUpdate", AllTopicsRoom)
                         <=> <<AllTopicsRoom, v>> \in rooms
                    /\ Got(v, "zoneData", n) <=> <<n, v>> \in rooms
               /\ \A i \in New :
                    /\ delivered'[i].kind = "broadcast"
                    /\ delivered'[i].emit.payload = P
                    /\ <<delivered'[i].emit.room, delivered'[i].to>> \in rooms
                    /\ \/ /\ delivered'[i].emit.event = "zoneData"
                          /\ delivered'[i].emit.room = n
                       \/ /\ delivered'[i].emit.event = "topicUpdate"
                          /\ delivered'[i].emit.room
                               \in {TopicPrefix \o n, AllTopicsRoom}]_vars

BroadcastsTo(v) ==
  {delivered[i].emit.event :
     i \in {j \in DOMAIN delivered : delivered[j].kind = "broadcast"
                                      /\ delivered[j].to = v}}

\* a message was committed and broadcast: the viewer in the topic room only
\* got topicUpdate, the viewer in the zone room and in all-topics got both
\* events, and the connected viewer in no room got nothing
C14_Witness ==
  /\ \E m \in DOMAIN received : received[m].outcome = "stored"
  /\ {r \in {N1, TopicPrefix \o N1, AllTopicsRoom} : <<r, "s1">> \in rooms}
       = {TopicPrefix \o N1}
  /\ <<N1, "s2">> \in rooms
  /\ <<AllTopicsRoom, "s2">> \in rooms
  /\ "s3" \in sockets
  /\ BroadcastsTo("s1") = {"topicUpdate"}
  /\ BroadcastsTo("s2") = {"topicUpdate", "zoneData"}
  /\ \A i \in DOMAIN delivered : delivered[i].to # "s3"

Pushes == Len(zonePushes') = Len(zonePushes) + 1

NewPush == zonePushes'[Len(zonePushes')]

\* C21: a call of broadcastToZoneRoom(zoneName, eventName, data) makes an
\* emit exactly when the router is initialized and room zoneName has a
\* member; the event then goes to the members of that room and to nobody
\* else, with the data, zoneName and clientCount = the number of members; in
\* the other case nothing is emitted or delivered.  getZoneRoomClientCount
\* returns the number of members of the room, 0 for a room nobody is in.
C21_ZoneRoomPushNeedsOccupancy ==
  /\ [][Pushes =>
         LET members == MembersOf(rooms, NewPush.zoneName)
             New == (Len(delivered) + 1)..Len(delivered')
         IN /\ Len(emitted') = Len(emitted) + 1 <=> (io /\ members # {})
            /\ ~(io /\ members # {}) => (emitted' = emitted /\ delivered' = delivered)
            /\ (io /\ members # {})
                 => /\ {delivered'[i].to : i \in New} = members
                    /\ \A i \in New :
                         /\ delivered'[i].kind = "push"
                         /\ delivered'[i].emit.event = NewPush.eventName
                         /\ delivered'[i].emit.payload.zoneName = NewPush.zoneName
                         /\ delivered'[i].emit.payload.clientCount = Cardinality(members)
                         /\ \A k \in DOMAIN NewPush.data \ {"zoneName", "clientCount"} :
                              delivered'[i].emit.payload[k] = NewPush.data[k]]_vars
  /\ [](\A z \in {N1, R1, StrayTopic} :
          getZoneRoomClientCount(z) = Cardinality(MembersOf(rooms, z)))

\* two calls were made, one for an occupied room and one for an empty one:
\* one event was emitted, with the occupancy
C21_Witness ==
  /\ Len(zonePushes) = 2
  /\ zonePushes[1].zoneName # zonePushes[2].zoneName
  /\ Cardinality({i \in DOMAIN emitted : emitted[i].event = "alarm"}) = 1
  /\ \E i \in DOMAIN delivered :
       delivered[i].kind = "push" /\ delivered[i].emit.payload.clientCount = 1

\* C22: commits for different topic names do not wait for each other: while
\* the commit of a message for name n is in flight, at either of its two
\* database calls and for however long, a message for another registered name
\* m can arrive, each database call of its commit can resolve, and the
\* steps of the commit for m (through to its record and its events) leave the
\* commit for n as it is.
C22_OtherNamesDoNotBlock ==
  /\ [](\A h \in handlers, g \in handlers :
          h.name # g.name
            => /\ g.pc = "update" => ENABLED updateResolves(g)
               /\ g.pc = "save" => ENABLED saveResolves(g))
  /\ [](\A h \in handlers, m \in DOMAIN topicSubscriptions :
          (m # h.name /\ client /\ busUp /\ Len(received) < MaxMessages)
            => ENABLED onMessage(m, ZoneText))
  /\ [][\A h \in handlers, g \in handlers :
          (h.name # g.name /\ g \notin handlers') => h \in handlers']_vars

\* the first message's commit has not got past its UPDATE, and a later message
\* for another name is stored and broadcast
C22_Witness ==
  /\ Len(received) = 2
  /\ received[1].outcome = "pending"
  /\ \E h \in handlers : h.msg = 1 /\ h.pc = "update" /\ h.name # received[2].topic
  /\ received[2].outcome = "stored"
  /\ RowsOfMsg(2) # {}
  /\ EventsOfMsg(2) # {}

\* C23: the store only grows: no step removes a record or changes the id,
\* name, payload, deviceId or zoneId of an existing one; the isLatest flag of
\* an existing record may go from true to false and never from false to true;
\* a message on a registered topic whose handling succeeds adds exactly one
\* record, of its topic, and records are added in no other way.
C23_StoreIsAppendOnly ==
  [][/\ Len(store') \in {Len(store), Len(store) + 1}
     /\ \A i \in DOMAIN store :
          /\ store'[i].id = store[i].id
          /\ store'[i].name = store[i].name
          /\ store'[i].data = store[i].data
          /\ store'[i].deviceId = store[i].deviceId
          /\ store'[i].zoneId = store[i].zoneId
          /\ store'[i].isLatest => store[i].isLatest
     /\ \A m \in MsgIds :
          (received[m].outcome # "stored" /\ received'[m].outcome = "stored")
            => /\ Len(store') = Len(store) + 1
               /\ store'[Len(store')].msg = m
               /\ store'[Len(store')].name = received[m].topic
     /\ Len(store') = Len(store) + 1
          => \E m \in MsgIds :
               received[m].outcome # "stored" /\ received'[m].outcome = "stored"]_vars

\* two messages of one topic were stored: the older record is kept, demoted
C23_Witness ==
  /\ Len(store) = 2
  /\ store[1].name = store[2].name
  /\ ~store[1].isLatest
  /\ store[2].isLatest
  /\ received[1].outcome = "stored"
  /\ received[2].outcome = "stored"

\* C24: buildTopic(deviceNumber, zoneName) is the device number followed
\* directly by the zone name, in which every '#' and every '+' is replaced by
\* '_' and every other character is kept; the result has the length of the
\* two inputs together, holds no '#' and no '+', is a function of the two
\* arguments alone, and is 00009zone1 for 00009 and zone1.
C24_BuildTopicSanitizedConcat ==
  utilCall.fn = "buildTopic"
    => LET both == utilCall.deviceNumber \o utilCall.zoneName
       IN /\ Len(utilReturn) = Len(utilCall.deviceNumber) + Len(utilCall.zoneName)
          /\ \A i \in 1..Len(both) :
               utilReturn[i] = IF both[i] \in {"#", "+"} THEN "_" ELSE both[i]
          /\ \A i \in DOMAIN utilReturn : utilReturn[i] \notin {"#", "+"}
          /\ (utilCall.deviceNumber = ExampleDevice /\ utilCall.zoneName = ExampleZone)
               => utilReturn = <<"0", "0", "0", "0", "9", "z", "o", "n", "e", "1">>

\* buildTopic was called with two wildcards in the device number and one in
\* the zone name
C24_Witness ==
  /\ utilCall.fn = "buildTopic"
  /\ utilCall.deviceNumber = <<"#", "+">>
  /\ utilCall.zoneName = <<"+", "z">>
  /\ utilReturn = <<"_", "_", "_", "z">>

PairTopic(z) == buildTopic(DeviceOf(z).deviceNumber, z.name)

\* C25: different device x zone pairs of the store have different topic
\* names; and when a subscription batch that ran alone has completed with no
\* failed subscribe, the registry holds as many topics as the batch derived
\* pairs, and each derived pair's topic resolves to that pair's device and
\* zone ids.
C25_OneTopicPerPair ==
  /\ \A y \in zones, z \in zones : y # z => PairTopic(y) # PairTopic(z)
  /\ \A b \in DOMAIN batches :
       (batches[b].phase = "done" /\ batches[b].failed = {} /\ batches[b].sequential)
         => /\ Cardinality(DOMAIN topicSubscriptions) >= Cardinality(batches[b].derived)
            /\ \A sub \in batches[b].derived : Registered(sub)

\* the value of character i of an 8-character bit string
BitOf(r, i) == IF r[i] = "1" THEN 1 ELSE 0

\* an 8-character bit string read as a two's-complement number, most
\* significant bit first
TwosComplement(r) ==
  (-128) * BitOf(r, 1) + 64 * BitOf(r, 2) + 32 * BitOf(r, 3) + 16 * BitOf(r, 4)
    + 8 * BitOf(r, 5) + 4 * BitOf(r, 6) + 2 * BitOf(r, 7) + BitOf(r, 8)

Clamp8(v) == IF v > 127 THEN 127 ELSE IF v < -128 THEN -128 ELSE v

\* C26: for an integer v, convertTo8BitSignedBinary(v) has exactly 8
\* characters, each 0 or 1, and read as an 8-bit two's-complement number it is
\* v clamped to -128..127; -1 gives 11111111, 127 and every larger v give
\* 01111111, -128 and every smaller v give 10000000.
C26_BinaryIsClampedTwosComplement ==
  utilCall.fn = "convertTo8BitSignedBinary"
    => /\ Len(utilReturn) = 8
       /\ \A i \in 1..Len(utilReturn) : utilReturn[i] \in {"0", "1"}
       /\ TwosComplement(utilReturn) = Clamp8(utilCall.value)
       /\ utilCall.value = -1 => utilReturn = <<"1", "1", "1", "1", "1", "1", "1", "1">>
       /\ utilCall.value >= 127 => utilReturn = <<"0", "1", "1", "1", "1", "1", "1", "1">>
       /\ utilCall.value <= -128 => utilReturn = <<"1", "0", "0", "0", "0", "0", "0", "0">>

\* a value below the range was converted
C26_Witness ==
  /\ utilCall.fn = "convertTo8BitSignedBinary"
  /\ utilCall.value = -129
  /\ utilReturn = <<"1", "0", "0", "0", "0", "0", "0", "0">>

DigitValue(c) == CHOOSE k \in 0..9 : DigitChar(k) = c

\* the number a string of decimal digits denotes
RECURSIVE DigitsToNat(_)
DigitsToNat(s) ==
  IF s = <<>> THEN 0
  ELSE 10 * DigitsToNat(SubSeq(s, 1, Len(s) - 1)) + DigitValue(s[Len(s)])

\* C27: convertDecimalPlace(0) is 0; for another integer v the result is a
\* '-' exactly when v is negative, then the decimal digits of |v| without
\* the last one (a single 0 when there is none, no leading 0 otherwise), a
\* point, and the last decimal digit of |v|; 345 gives 34.5 and 400 gives 40.0.
C27_DecimalPlaceIsTenthWithOneDigit ==
  utilCall.fn = "convertDecimalPlace"
    => IF utilCall.value = 0 THEN utilReturn = <<"0">>
       ELSE LET body == IF utilCall.value < 0 THEN Tail(utilReturn) ELSE utilReturn
                whole == SubSeq(body, 1, Len(body) - 2)
            IN /\ utilCall.value < 0 <=> utilReturn[1] = "-"
               /\ Len(body) >= 3
               /\ body[Len(body) - 1] = "."
               /\ body[Len(body)] \in Digit
               /\ DigitValue(body[Len(body)]) = Abs(utilCall.value) % 10
               /\ \A i \in 1..Len(whole) : whole[i] \in Digit
               /\ DigitsToNat(whole) = Abs(utilCall.value) \div 10
               /\ Len(whole) > 1 => whole[1] # "0"
               /\ utilCall.value = 345 => utilReturn = <<"3", "4", ".", "5">>
               /\ utilCall.value = 400 => utilReturn = <<"4", "0", ".", "0">>

\* a negative value of one digit was converted
C27_Witness ==
  /\ utilCall.fn = "convertDecimalPlace"
  /\ utilCall.value = -7
  /\ utilReturn = <<"-", "0", ".", "7">>

\* the zone type a topic name hints at: the first of zone1, zone2, zone3 it
\* contains, 0 when it contains none
TopicHint(t) ==
  IF includes(t, <<"z", "o", "n", "e", "1">>) THEN 1
  ELSE IF includes(t, <<"z", "o", "n", "e", "2">>) THEN 2
  ELSE IF includes(t, <<"z", "o", "n", "e", "3">>) THEN 3
  ELSE 0

\* the payload has a nested data object (a truthy d)
HasData(p) == "d" \in DOMAIN p /\ Truthy(p.d)

FieldNamesOf(p) == IF HasData(p) /\ IsObj(p.d) THEN DOMAIN p.d.obj ELSE {}

\* the zone type the field names of a payload indicate, 0 when none does
FieldHint(p) ==
  IF FieldNamesOf(p) \cap Zone1Names # {} THEN 1
  ELSE IF FieldNamesOf(p) \cap Zone2Names # {} THEN 2
  ELSE IF FieldNamesOf(p) \cap Zone3Names # {} THEN 3
  ELSE 0

\* C28 as stated: a topic name containing zone1, zone2 or zone3 gives type 1,
\* 2 or 3 whatever the payload is; with no hint in the topic the type is the
\* one the payload's field names indicate; and the result is 0 exactly when
\* neither the topic nor the field names indicate a type.
C28_Original_TopicHintAlwaysWins ==
  utilCall.fn = "detectZoneType"
    => /\ includes(utilCall.topic, <<"z", "o", "n", "e", "1">>) => utilReturn = 1
       /\ includes(utilCall.topic, <<"z", "o", "n", "e", "2">>) => utilReturn = 2
       /\ includes(utilCall.topic, <<"z", "o", "n", "e", "3">>) => utilReturn = 3
       /\ TopicHint(utilCall.topic) = 0 => utilReturn = FieldHint(utilCall.data)
       /\ utilReturn = 0
            <=> (TopicHint(utilCall.topic) = 0 /\ FieldHint(utilCall.data) = 0)

\* C28, amended: a payload without a nested data object (no d, or a falsy d)
\* is classified 0 whatever the topic name is.  For a payload with one, the
\* topic name decides first: the type is that of the first of zone1, zone2,
\* zone3 the name contains, whatever the field names are; only when the name
\* contains none is the type the one the field names of d indicate (zone-1
\* names before zone-2 names before zone-3 names).  The result is 0 exactly
\* when the payload has no nested data object or neither signal matches.
C28_TopicHintThenFields ==
  utilCall.fn = "detectZoneType"
    => /\ ~HasData(utilCall.data) => utilReturn = 0
       /\ (HasData(utilCall.data) /\ TopicHint(utilCall.topic) > 0)
            => utilReturn = TopicHint(utilCall.topic)
       /\ (HasData(utilCall.data) /\ TopicHint(utilCall.topic) = 0)
            => utilReturn = FieldHint(utilCall.data)
       /\ utilReturn = 0
            <=> \/ ~HasData(utilCall.data)
                \/ TopicHint(utilCall.topic) = 0 /\ FieldHint(utilCall.data) = 0

\* a payload whose field names indicate zone 1 arrived on a topic that hints
\* at zone 2 only, and was classified 2
C28_Witness ==
  /\ utilCall.fn = "detectZoneType"
  /\ utilCall.topic = <<"z", "o", "n", "e", "2">>
  /\ HasData(utilCall.data)
  /\ d200 \in FieldNamesOf(utilCall.data)
  /\ utilReturn = 2

\* field names tried against the pattern classes: every string of at most
\* MaxFieldNameLen of these characters
PatternChars == {"d", "x", "y", "m", "2", "5", "0"}

PatternNames == UNION { [1..n -> PatternChars] : n \in 0..MaxFieldNameLen }

\* no field name is in two of the three pattern classes
ClassesExclusive ==
  \A f \in PatternNames :
    /\ ~(decimalFields(f) /\ binaryFields(f))
    /\ ~(decimalFields(f) /\ asIsFields(f))
    /\ ~(binaryFields(f) /\ asIsFields(f))

\* the array a, each number put through convertDecimalPlace
EachDecimal(a) == [i \in 1..Len(a) |-> Str(convertDecimalPlace(a[i].num))]

\* the array a, each number put through convertTo8BitSignedBinary
EachBinary(a) == [i \in 1..Len(a) |-> Str(convertTo8BitSignedBinary(a[i].num))]

\* in the output r for the payload p, every array-valued field of d is
\* rewritten according to its pattern class
Rewritten(p, r) ==
  /\ IsObj(r.d)
  /\ DOMAIN r.d.obj = DOMAIN p.d.obj
  /\ \A f \in DOMAIN p.d.obj :
       IsArr(p.d.obj[f])
         => /\ decimalFields(f) => r.d.obj[f] = Arr(EachDecimal(p.d.obj[f].arr))
            /\ binaryFields(f) => r.d.obj[f] = Arr(EachBinary(p.d.obj[f].arr))

\* C29 as stated: the normalizer returns a payload classified 0 unchanged,
\* and for every payload classified as a known zone type it rewrites every
\* array-valued field of the nested data object according to its pattern
\* class; no field name is in more than one class.
C29_Original_EveryClassifiedPayloadRewritten ==
  /\ ClassesExclusive
  /\ utilCall.fn = "processDataForWebsocket"
       => /\ detectZoneType(utilCall.topic, utilCall.data) = 0
               => utilReturn.value = utilCall.data
          /\ (detectZoneType(utilCall.topic, utilCall.data) > 0 /\ IsObj(utilCall.data.d))
               => Rewritten(utilCall.data, utilReturn.value)

\* C29, amended: the normalizer returns the payload unchanged when it is
\* classified 0 and also when it is classified as a known zone type but has
\* no ts field; for every payload classified as a known zone type that has a
\* ts field it rewrites every array-valued field of the nested data object
\* according to its pattern class, decimal-class fields element-wise through
\* convertDecimalPlace and binary-class fields element-wise through
\* convertTo8BitSignedBinary; no field name is in more than one class.
C29_ClassifiedPayloadWithTsRewritten ==
  /\ ClassesExclusive
  /\ utilCall.fn = "processDataForWebsocket"
       => /\ detectZoneType(utilCall.topic, utilCall.data) = 0
               => utilReturn.value = utilCall.data
          /\ (detectZoneType(utilCall.topic, utilCall.data) > 0
                 /\ "ts" \notin DOMAIN utilCall.data)
               => utilReturn.value = utilCall.data
          /\ (detectZoneType(utilCall.topic, utilCall.data) > 0
                 /\ "ts" \in DOMAIN utilCall.data /\ IsObj(utilCall.data.d))
               => Rewritten(utilCall.data, utilReturn.value)

\* a payload with ts, a decimal-class array and a binary-class array was
\* normalized on a topic that hints at zone 1
C29_Witness ==
  /\ utilCall.fn = "processDataForWebsocket"
  /\ utilCall.topic = <<"0", "9", "z", "o", "n", "e", "1">>
  /\ utilCall.data = [d |-> Obj([f \in {d599, y12} |->
                                   IF f = d599 THEN Arr(<<Num(345), Num(0)>>)
                                   ELSE Arr(<<Num(-1), Num(200), Num(-7)>>)]),
                      ts |-> Txt("t1")]
  /\ utilReturn.value.d.obj[d599] =
        Arr(<<Str(<<"3", "4", ".", "5">>), Str(<<"0">>)>>)
  /\ utilReturn.value.d.obj[y12] =
        Arr(<<Str(<<"1", "1", "1", "1", "1", "1", "1", "1">>),
              Str(<<"0", "1", "1", "1", "1", "1", "1", "1">>),
              Str(<<"1", "1", "1", "1", "1", "0", "0", "1">>)>>)

\* a field of the nested data object that the normalizer has no rule for: a
\* value that is no array, or a name of neither the decimal nor the binary class
Untouched(f, v) == ~IsArr(v) \/ (~decimalFields(f) /\ ~binaryFields(f))

\* C30: a call of the normalizer leaves the payload object it was given as it
\* was; the output has the input's top-level fields, each other than d equal
\* to the input's, and in its d every field that is no array and every array
\* field whose name is in neither the decimal nor the binary class (those of
\* the as-is class among them) equals the input's.
C30_InputKeptAndOtherFieldsEqual ==
  utilCall.fn = "processDataForWebsocket"
    => /\ utilReturn.argument = utilCall.data
       /\ DOMAIN utilReturn.value = DOMAIN utilCall.data
       /\ \A k \in DOMAIN utilCall.data \ {"d"} : utilReturn.value[k] = utilCall.data[k]
       /\ "d" \in DOMAIN utilCall.data
            => IF IsObj(utilCall.data.d)
               THEN /\ IsObj(utilReturn.value.d)
                    /\ DOMAIN utilReturn.value.d.obj = DOMAIN utilCall.data.d.obj
                    /\ \A f \in DOMAIN utilCall.data.d.obj :
                         Untouched(f, utilCall.data.d.obj[f])
                           => utilReturn.value.d.obj[f] = utilCall.data.d.obj[f]
               ELSE utilReturn.value.d = utilCall.data.d

\* a payload with a binary-class array and an as-is-class array was
\* normalized: the output differs from the input in the first only, and the
\* input object is as it was
C30_Witness ==
  /\ utilCall.fn = "processDataForWebsocket"
  /\ "ts" \in DOMAIN utilCall.data
  /\ utilCall.data.d = Obj([f \in {x0, m550} |-> Arr(<<Num(-1), Num(200), Num(-7)>>)])
  /\ utilReturn.value.d.obj[x0] # utilCall.data.d.obj[x0]
  /\ utilReturn.value.d.obj[m550] = utilCall.data.d.obj[m550]
  /\ utilReturn.argument = utilCall.data

\* C31: a step of a commit for name n (its UPDATE or its save, resolving or
\* rejecting) leaves every record of another name exactly as it was, and the
\* record it adds, if any, has name n; a step of no commit leaves the store
\* as it was.
C31_CommitTouchesOwnNameOnly ==
  [][/\ \A h \in handlers :
          h \notin handlers'
            => /\ \A i \in DOMAIN store :
                    store[i].name # h.name
                      => (i \in DOMAIN store' /\ store'[i] = store[i])
               /\ \A i \in DOMAIN store' \ DOMAIN store : store'[i].name = h.name
     /\ (\A h \in handlers : h \in handlers') => store' = store]_vars

\* a record of one name is still the latest of its name after a later commit
\* for another name succeeded
C31_Witness ==
  /\ Len(store) = 2
  /\ store[1].name # store[2].name
  /\ store[1].isLatest
  /\ store[2].isLatest
  /\ store[1].msg < store[2].msg

\* the message for name n that arrived last, among those that started a commit
LastCommitOf(n) == CHOOSE m \in CommitsOf(n) : \A k \in CommitsOf(n) : k <= m

\* C32: for a topic name with no commit in flight whose commits all
\* succeeded, the one record with isLatest = true is the record created from
\* the message for that name that arrived last; and each viewer is sent the
\* topicUpdate events of room topic:n in the order in which their messages
\* arrived.
C32_ArrivalOrderPreserved ==
  /\ \A n \in MessageTopics :
       (/\ CommitsOf(n) # {}
        /\ \A m \in CommitsOf(n) : received[m].outcome = "stored")
         => LatestOf(n) = RowsOfMsg(LastCommitOf(n))
  /\ \A i \in DOMAIN delivered, j \in DOMAIN delivered :
       (/\ i < j
        /\ delivered[i].kind = "broadcast"
        /\ delivered[j].kind = "broadcast"
        /\ delivered[i].to = delivered[j].to
        /\ delivered[i].emit.event = "topicUpdate"
        /\ delivered[j].emit.event = "topicUpdate"
        /\ delivered[i].emit.room = delivered[j].emit.room
        /\ delivered[i].emit.room = TopicPrefix \o delivered[i].emit.payload.name)
         => delivered[i].emit.msg <= delivered[j].emit.msg

\* C33: a message that starts a commit is given the device and zone ids the
\* registry maps its topic to in that moment; the commit keeps them, whatever
\* happens to the registry while it is in flight; and the record it inserts
\* carries them, under the name of the topic the message arrived on.
C33_RecordCarriesResolvedIds ==
  /\ [][(Arrives /\ NewMsg.outcome = "pending")
          => \E h \in handlers' \ handlers :
               /\ h.msg = Len(received')
               /\ h.name = NewMsg.topic
               /\ h.deviceId = topicSubscriptions[NewMsg.topic].deviceId
               /\ h.zoneId = topicSubscriptions[NewMsg.topic].zoneId]_vars
  /\ [][\A h \in handlers, g \in handlers' :
          g.msg = h.msg
            => (g.name = h.name /\ g.deviceId = h.deviceId /\ g.zoneId = h.zoneId)]_vars
  /\ [][\A i \in DOMAIN store' \ DOMAIN store :
          \E h \in handlers \ handlers' :
            /\ h.msg = store'[i].msg
            /\ store'[i].name = received[h.msg].topic
            /\ store'[i].deviceId = h.deviceId
            /\ store'[i].zoneId = h.zoneId]_vars
  /\ [](\A i \in DOMAIN store : store[i].name = received[store[i].msg].topic)

\* a record was committed after a reconnect had changed what the registry
\* maps its topic to: it carries the zone id of the time of its arrival
C33_Witness ==
  \E i \in DOMAIN store :
    /\ store[i].name \in DOMAIN topicSubscriptions
    /\ store[i].zoneId # topicSubscriptions[store[i].name].zoneId

\* the step of one broadcastTopicUpdate call with the router initialized
Publishes ==
  /\ Len(emitted') > Len(emitted)
  /\ emitted'[Len(emitted) + 1].event = "topicUpdate"

PublishedName == emitted'[Len(emitted) + 1].payload.name

\* the deliveries of event e made to viewer v in this step
SentInStep(v, e) ==
  {i \in (Len(delivered) + 1)..Len(delivered') :
     /\ delivered'[i].to = v
     /\ delivered'[i].kind = "broadcast"
     /\ delivered'[i].emit.event = e}

\* C34: in one broadcastTopicUpdate call for name n a viewer is sent as many
\* topicUpdate events as it is a member of rooms among topic:n and
\* all-topics (0, 1 or 2), and one zoneData event if it is a member of room
\* n, none otherwise; a viewer in both room n and room topic:n (as after
\* join-room(n)) is sent the same record as topicUpdate and as zoneData.
C34_EventsPerViewerByMembership ==
  [][Publishes =>
       \A v \in Sockets :
         /\ Cardinality(SentInStep(v, "topicUpdate"))
              = Cardinality({r \in {TopicPrefix \o PublishedName, AllTopicsRoom} :
                               <<r, v>> \in rooms})
         /\ Cardinality(SentInStep(v, "zoneData"))
              = IF <<PublishedName, v>> \in rooms THEN 1 ELSE 0
         /\ (<<PublishedName, v>> \in rooms /\ <<TopicPrefix \o PublishedName, v>> \in rooms)
              => \E i \in SentInStep(v, "topicUpdate"), j \in SentInStep(v, "zoneData") :
                   delivered'[i].emit.payload = delivered'[j].emit.payload]_vars

BroadcastCount(v, e) ==
  Cardinality({i \in DOMAIN delivered : /\ delivered[i].to = v
                                        /\ delivered[i].kind = "broadcast"
                                        /\ delivered[i].emit.event = e})

\* one record was broadcast: the viewer that joined n and all-topics was sent
\* two topicUpdate and one zoneData, the subscriber of n one topicUpdate
C34_Witness ==
  /\ Len(emitted) = 3
  /\ <<N1, "s2">> \in rooms
  /\ <<AllTopicsRoom, "s2">> \in rooms
  /\ BroadcastCount("s2", "topicUpdate") = 2
  /\ BroadcastCount("s2", "zoneData") = 1
  /\ BroadcastCount("s1", "topicUpdate") = 1
  /\ BroadcastCount("s1", "zoneData") = 0

\* inbound event i is a subscribe, unsubscribe, join-room or leave-room naming r
NamesRoom(i, r) ==
  \/ /\ inbound[i].event \in {subscribeEvent, unsubscribeEvent}
     /\ inbound[i].data = r
  \/ /\ inbound[i].event \in {joinRoomEvent, leaveRoomEvent}
     /\ inbound[i].data.roomName = r

\* the membership events of viewer v naming r
EventsNaming(v, r) == {i \in DOMAIN inbound : inbound[i].from = v /\ NamesRoom(i, r)}

LastOf(is) == CHOOSE i \in is : \A j \in is : j <= i

\* the last membership event of v naming r is a subscribe or a join-room
LastEventJoins(v, r) ==
  /\ EventsNaming(v, r) # {}
  /\ inbound[LastOf(EventsNaming(v, r))].event \in {subscribeEvent, joinRoomEvent}

\* v sent a join-room or leave-room whose roomName is the room topic:r itself
NamedTopicRoomItself(v, r) ==
  \E i \in DOMAIN inbound :
    /\ inbound[i].from = v
    /\ inbound[i].event \in {joinRoomEvent, leaveRoomEvent}
    /\ inbound[i].data.roomName = TopicPrefix \o r

\* a join-room by a viewer that is in the room already leaves the occupancy
\* as it was and reports it
RepeatedJoinKeepsCount ==
  (/\ Sends
   /\ NewIn.event = joinRoomEvent
   /\ <<NewIn.data.roomName, NewIn.from>> \in rooms)
    => /\ MembersOf(rooms', NewIn.data.roomName) = MembersOf(rooms, NewIn.data.roomName)
       /\ NewAck.emit.clientCount = Cardinality(MembersOf(rooms, NewIn.data.roomName))

\* leave-room(r) leaves the viewer outside topic:r, however it got in
LeaveRemovesTopicMembership ==
  (Sends /\ NewIn.event = leaveRoomEvent)
    => <<TopicPrefix \o NewIn.data.roomName, NewIn.from>> \notin rooms'

\* C35 as stated: a viewer is a member of topic:r exactly when the last of
\* its subscribe, unsubscribe, join-room and leave-room events naming r is a
\* subscribe or a join-room; a repeated join-room(r) does not raise the
\* occupancy; leave-room(r) removes a topic:r membership got by subscribe(r).
C35_Original_LastEventNamingRDecides ==
  /\ [](\A v \in Sockets :
          <<TopicPrefix \o R1, v>> \in rooms <=> LastEventJoins(v, R1))
  /\ [][RepeatedJoinKeepsCount]_vars
  /\ [][LeaveRemovesTopicMembership]_vars

\* C35, amended: for a viewer that sent no join-room or leave-room naming the
\* room topic:r itself, membership of topic:r is decided by the last of its
\* subscribe, unsubscribe, join-room and leave-room events naming r (member
\* after subscribe or join-room, non-member after unsubscribe or leave-room,
\* non-member with no such event); a repeated join-room(r) does not raise the
\* occupancy; leave-room(r) removes a topic:r membership got by subscribe(r).
C35_LastEventNamingRDecides ==
  /\ [](\A v \in Sockets :
          ~NamedTopicRoomItself(v, R1)
            => (<<TopicPrefix \o R1, v>> \in rooms <=> LastEventJoins(v, R1)))
  /\ [][RepeatedJoinKeepsCount]_vars
  /\ [][LeaveRemovesTopicMembership]_vars

\* a viewer subscribed to r, joined r (told an occupancy of 1) and left r: it
\* is out of topic:r, which it had entered twice
C35_Witness ==
  /\ Len(inbound) = 3
  /\ \A i \in 1..3 : inbound[i].from = "s1"
  /\ inbound[1].event = subscribeEvent
  /\ inbound[1].data = R1
  /\ inbound[2].event = joinRoomEvent
  /\ inbound[2].data.roomName = R1
  /\ inbound[3].event = leaveRoomEvent
  /\ inbound[3].data.roomName = R1
  /\ <<TopicPrefix \o R1, "s1">> \notin rooms
  /\ \E i \in DOMAIN delivered :
       /\ delivered[i].kind = "ack"
       /\ delivered[i].emit.event = "room-joined"
       /\ delivered[i].emit.clientCount = 1

\* C36: a dynamic event r-<type> is sent to exactly the members of room r,
\* whether the viewer it comes from is a member of r or not; what is sent
\* names that viewer as its origin.
C36_RelayIgnoresSenderMembership ==
  [][(Sends /\ Dynamic(NewIn.event)) =>
       /\ SentTo("relay") = MembersOf(rooms, RoomPart(NewIn.event))
       /\ \A i \in (Len(delivered) + 1)..Len(delivered') :
            delivered'[i].kind = "relay" => delivered'[i].emit.payload.from = NewIn.from]_vars

\* a viewer in no room sent r1-m, and the member of r1 was sent it
C36_Witness ==
  \E a \in Sockets, b \in Sockets :
    /\ a # b
    /\ \A p \in rooms : p[2] # a
    /\ <<R1, b>> \in rooms
    /\ \A i \in DOMAIN inbound : inbound[i].from = a => Dynamic(inbound[i].event)
    /\ \E i \in DOMAIN inbound : inbound[i].from = a /\ RoomPart(inbound[i].event) = R1
    /\ \E i \in DOMAIN delivered :
         /\ delivered[i].kind = "relay"
         /\ delivered[i].to = b
         /\ delivered[i].emit.payload.from = a

\* C37: nothing a viewer is sent by the relay path is named topicUpdate,
\* zoneData, room-joined or room-left: an event of one of these names comes
\* from a broadcast, from a server push, or is the acknowledgment of the
\* receiving viewer's own join-room or leave-room.
C37_ProtocolEventsNeverRelayed ==
  \A i \in DOMAIN delivered :
    delivered[i].kind = "relay" => delivered[i].emit.event \notin ProtocolEventNames

\* the step in which the history query answers
HistoryAnswers ==
  /\ utilCall # utilCall'
  /\ utilCall'.fn = "getTopicHistoricalData"
  /\ utilCall'.pc = "done"

\* the records of name n, in the order of their creation
RecordsOf(n) == SelectSeq(store, LAMBDA r : r.name = n)

\* C38: the history query for name n answers not-found exactly when the store
\* holds no record of n; otherwise it answers with the min(limit, count)
\* records of n created last, the newest first, at most one of them marked
\* isLatest.
C38_HistoryNotFoundIffNoRecord ==
  [][HistoryAnswers =>
       LET n == utilCall'.name
           count == Len(RecordsOf(n))
           limit == parseLimit(utilCall'.limit)
           k == IF limit < count THEN limit ELSE count
       IN /\ utilReturn'.status = 404 <=> count = 0
          /\ utilReturn'.status = 200
               => /\ Len(utilReturn'.history) = k
                  /\ \A i \in 1..k :
                       utilReturn'.history[i].id = RecordsOf(n)[count + 1 - i].id
                  /\ Cardinality({i \in 1..k : utilReturn'.history[i].isLatest}) <= 1]_vars

====
